---- MODULE Spec2Model ----
(***************************************************************************)
(* Image-to-panel rendering pipeline of the 13.3" Spectra 6 firmware:      *)
(* DisplayAdapter (packed framebuffer, dual-controller transport) and      *)
(* ImageScreen (format dispatch, decoders, scaleToFit, ditherImage,        *)
(* renderBitmaps).  The panel is modelled at a reduced resolution that     *)
(* keeps the 3:4 aspect ratio and the divisibility of the width by four.   *)
(***************************************************************************)
EXTENDS Integers, Sequences, FiniteSets, TLC

(* ------------------------------------------------------------------ *)
(* Bounds                                                              *)
(* ------------------------------------------------------------------ *)
\* the panel width is 4 * WidthQuads pixels (1200 = 4 * 300 on the device)
WidthQuads == 3
\* the panel height in rows (1600 on the device)
PanelRows == 16
\* how many drawPixel calls a transport run may follow
MaxDraws == 2
\* how many panel refreshes a run may trigger
MaxRefreshes == 1

(* ------------------------------------------------------------------ *)
(* Program constants                                                   *)
(* ------------------------------------------------------------------ *)
EPD_NATIVE_WIDTH == 4 * WidthQuads
EPD_NATIVE_HEIGHT == PanelRows
FRAME_BUFFER_SIZE == (EPD_NATIVE_WIDTH * EPD_NATIVE_HEIGHT) \div 2

GPIO_LOW == 0
GPIO_HIGH == 1

\* hardware colour codes of the vendor driver
BLACK == 0
WHITE == 17
YELLOW == 34
RED == 51
BLUE == 85
GREEN == 102

\* vendor command code "data transmission"
DTM == 16

ColourCodes == {BLACK, WHITE, YELLOW, RED, BLUE, GREEN}

\* bitwise OR of two naturals
RECURSIVE BitOr(_, _)
BitOr(a, b) ==
  IF a = 0 THEN b
  ELSE IF b = 0 THEN a
  ELSE (IF (a % 2 = 1) \/ (b % 2 = 1) THEN 1 ELSE 0)
       + 2 * BitOr(a \div 2, b \div 2)

\* the byte (c << 4) | c stored by memset / fillScreen
WhiteFill == BitOr(WHITE * 16, WHITE) % 256

Min(a, b) == IF a < b THEN a ELSE b
Max(a, b) == IF a > b THEN a ELSE b

(* ------------------------------------------------------------------ *)
(* State                                                               *)
(* ------------------------------------------------------------------ *)
VARIABLES
  frameBuffer,   \* DisplayAdapter::_frameBuffer: byte index -> byte; empty = nullptr
  initialized,   \* DisplayAdapter::_initialized
  rotation,      \* Adafruit_GFX::rotation
  cs,            \* level of the chip-select lines CS0, CS1
  dispPc,        \* position inside display() / sendFrameBufferToDisplay()
  row,           \* loop variable of sendFrameBufferToDisplay
  busLog,        \* bus events of the current sendFrameBufferToDisplay call
  refreshes,     \* number of epdDisplay() refreshes triggered
  draws,         \* number of drawPixel calls so far
  palIn,         \* findNearestColor: the arguments r, g, b
  palOut,        \* findNearestColor: the returned index, -1 before the call
  rgb565Buffer,  \* ditherImage: the RGB565 canvas, pixel index -> value
  dithPc,        \* ditherImage: position ("idle", "loop", "done", "failed", "crashed")
  dithX,         \* ditherImage: loop variable x
  dithY,         \* ditherImage: loop variable y
  errCurr,       \* ditherImage: errR_curr, errG_curr, errB_curr
  errNext,       \* ditherImage: errR_next, errG_next, errB_next
  planes,        \* ditherImage: the five bitmaps of ColorImageBitmaps
  chosen,        \* ditherImage: colorIdx chosen per pixel, -1 = not yet visited
  renderPc,      \* ImageScreen::render: position ("idle" outside a render pass)
  data,          \* processImageData: the input buffer (size and content)
  decPc,         \* position inside processImageData and the decoder it calls
  decoder,       \* the decoder processImageData invoked, "none" if none
  result,        \* what processImageData returned: "pending", "null", "bitmaps"
  scaleRun,      \* the locals of the scaleToFit call of this pass, if any
  heap,          \* the working buffers currently allocated
  localFile,     \* LittleFS: which /local_image.* files exist, and the content
  httpResult,    \* what the image server answers: httpCode and body
  sdPc,          \* copyImageFromSDToLittleFS: position ("idle" outside the call)
  sdCard,        \* the SD card: the files of its root in directory order
  foundPathStr,  \* copyImageFromSDToLittleFS: the file chosen, "" if none
  sdLog,         \* the bus and file system calls made by the SD copy, in order
  sdResult,      \* what copyImageFromSDToLittleFS returned, "pending" before
  bootPc,        \* setup(): position ("off" outside a boot)
  credentials,   \* appConfig->hasValidWiFiCredentials()
  connected,     \* wifi.isConnected()
  isServerRunning, \* ConfigurationServer::isServerRunning
  elapsed,       \* millis() - serverStart, in passes of the serving loop
  bootLog        \* the screens rendered and the calls made by setup(), in order

dispVars == <<frameBuffer, initialized, rotation, cs, dispPc, row, busLog,
              refreshes, draws>>
palVars == <<palIn, palOut>>
dithVars == <<rgb565Buffer, dithPc, dithX, dithY, errCurr, errNext, planes,
              chosen>>

rendVars == <<renderPc, localFile, httpResult>>
decVars == <<data, decPc, decoder, result, scaleRun, heap>>
sdVars == <<sdPc, sdCard, foundPathStr, sdLog, sdResult>>
bootVars == <<bootPc, credentials, connected, isServerRunning, elapsed, bootLog>>

vars == <<dispVars, palVars, dithVars, rendVars, decVars, sdVars, bootVars>>

\* what the operations of each component leave alone
notDisp == <<palVars, dithVars, rendVars, decVars, sdVars, bootVars>>
notPal == <<dispVars, dithVars, rendVars, decVars, sdVars, bootVars>>
notDith == <<dispVars, palVars, rendVars, decVars, sdVars, bootVars>>
notRend == <<palVars, dithVars, decVars, sdVars, bootVars>>

NullBuffer == [i \in {} |-> 0]
IsNull(buf) == DOMAIN buf = {}

(* ------------------------------------------------------------------ *)
(* DisplayAdapter                                                      *)
(* ------------------------------------------------------------------ *)

\* memset(_frameBuffer, byte, FRAME_BUFFER_SIZE)
FilledBuffer(byte) == [i \in 0..(FRAME_BUFFER_SIZE - 1) |-> byte]

\* vendor driver: drive one chip-select line
setPinCs(lines, csNumber, level) == [lines EXCEPT ![csNumber] = level]
\* vendor driver: drive both chip-select lines
setPinCsAll(lines, level) == [n \in DOMAIN lines |-> level]

\* DisplayAdapter::fillScreen
fillScreen(fb, color) ==
  IF IsNull(fb) THEN fb
  ELSE FilledBuffer(BitOr((color % 256) * 16, color % 256) % 256)

\* the rotation switch of drawPixel: logical -> physical coordinates
Rotated(rot, x, y) ==
  CASE rot = 0 -> <<x, y>>
    [] rot = 1 -> <<EPD_NATIVE_WIDTH - 1 - y, x>>
    [] rot = 2 -> <<EPD_NATIVE_WIDTH - 1 - x, EPD_NATIVE_HEIGHT - 1 - y>>
    [] rot = 3 -> <<y, EPD_NATIVE_HEIGHT - 1 - x>>

\* the byte index without the parentheses: y * width + x / 2
PackedIndex_Unhalved(x, y) == (y * EPD_NATIVE_WIDTH) + (x \div 2)

\* byte index of a physical pixel in the packed buffer
PackedIndex(x, y) == (y * EPD_NATIVE_WIDTH + x) \div 2

\* the nibble store with the two halves of the byte exchanged
PackNibble_Swapped(byte, x, color) ==
  IF x % 2 = 1 THEN (byte % 16) + ((color % 16) * 16)
  ELSE ((byte \div 16) * 16) + (color % 16)

\* the nibble store of drawPixel at physical (x, y)
PackNibble(byte, x, color) ==
  IF x % 2 = 0 THEN (byte % 16) + ((color % 16) * 16)
  ELSE ((byte \div 16) * 16) + (color % 16)

\* DisplayAdapter::drawPixel
drawPixel(fb, rot, lx, ly, color) ==
  IF IsNull(fb) THEN fb
  ELSE LET p == Rotated(rot, lx, ly)
           x == p[1]
           y == p[2]
       IN IF x < 0 \/ x >= EPD_NATIVE_WIDTH \/ y < 0 \/ y >= EPD_NATIVE_HEIGHT
          THEN fb
          ELSE [fb EXCEPT ![PackedIndex(x, y)] = PackNibble(@, x, color)]

\* one recorded bus event, with the chip-select levels at the time it is issued
BusEvent(op, n, v, bytes, lines) ==
  [op |-> op, n |-> n, v |-> v, data |-> bytes, cs |-> lines]

\* bytes [off, off + len) of the packed buffer, as writeEpdData receives them
Slice(fb, off, len) == [k \in 1..len |-> fb[off + k - 1]]

\* Width, Width1, Height of sendFrameBufferToDisplay
Width == EPD_NATIVE_WIDTH \div 2
Width1 == Width \div 2
Height == EPD_NATIVE_HEIGHT

\* the coordinates, colours and rotations the drawing calls are tried with
DrawXs == {-1, 0, Width - 1, Width, EPD_NATIVE_WIDTH - 1, EPD_NATIVE_WIDTH}
DrawYs == {0, EPD_NATIVE_HEIGHT - 1, EPD_NATIVE_HEIGHT}
DrawColours == {BLACK, RED}
Rotations == 0..3

\* the other components at rest
PalParked == palIn = <<0, 0, 0>> /\ palOut = -1
DithParked ==
  /\ rgb565Buffer = NullBuffer
  /\ dithPc = "idle"
  /\ dithX = 0
  /\ dithY = 0
  /\ errCurr = NullBuffer
  /\ errNext = NullBuffer
  /\ planes = NullBuffer
  /\ chosen = NullBuffer

NoFile == [exts |-> {}]
NoHttp == [httpCode |-> 0]
RendParked == renderPc = "idle" /\ localFile = NoFile /\ httpResult = NoHttp
NoScale == [called |-> FALSE]
NoData == [size |-> 0]
NoCard == <<>>
SdParked ==
  /\ sdPc = "idle"
  /\ sdCard = NoCard
  /\ foundPathStr = ""
  /\ sdLog = <<>>
  /\ sdResult = "pending"
BootParked ==
  /\ bootPc = "off"
  /\ credentials = FALSE
  /\ connected = FALSE
  /\ isServerRunning = FALSE
  /\ elapsed = 0
  /\ bootLog = <<>>
DecParked ==
  /\ data = NoData
  /\ decPc = "idle"
  /\ decoder = "none"
  /\ result = "pending"
  /\ scaleRun = NoScale
  /\ heap = {}

\* DisplayAdapter::DisplayAdapter
DispInit ==
  /\ frameBuffer = NullBuffer
  /\ initialized = FALSE
  /\ rotation = 0
  /\ cs = [n \in 0..1 |-> GPIO_HIGH]
  /\ dispPc = "idle"
  /\ row = 0
  /\ busLog = <<>>
  /\ refreshes = 0
  /\ draws = 0

\* DisplayAdapter::init; ps_malloc succeeds or returns nullptr
DisplayInitBody ==
  /\ dispPc = "idle"
  /\ \/ /\ ~initialized
        /\ \/ /\ frameBuffer' = FilledBuffer(WhiteFill)
              /\ cs' = setPinCsAll(cs, GPIO_HIGH)
              /\ initialized' = TRUE
           \/ /\ frameBuffer' = NullBuffer
              /\ UNCHANGED <<cs, initialized>>
     \/ /\ initialized
        /\ UNCHANGED <<frameBuffer, cs, initialized>>
  /\ UNCHANGED <<rotation, dispPc, row, busLog, refreshes, draws>>

\* a call of DisplayAdapter::init
DisplayInit == DisplayInitBody /\ UNCHANGED notDisp

\* DisplayAdapter::setRotation (Adafruit_GFX keeps r & 3)
SetRotation ==
  /\ dispPc = "idle"
  /\ draws = 0
  /\ \E r \in Rotations : rotation' = r % 4
  /\ UNCHANGED <<frameBuffer, initialized, cs, dispPc, row, busLog, refreshes,
                 draws>>
  /\ UNCHANGED notDisp

\* a call of DisplayAdapter::fillScreen
FillScreen ==
  /\ dispPc = "idle"
  /\ draws = 0
  /\ \E c \in {WHITE, BLACK} : frameBuffer' = fillScreen(frameBuffer, c)
  /\ UNCHANGED <<initialized, rotation, cs, dispPc, row, busLog, refreshes,
                 draws>>
  /\ UNCHANGED notDisp

\* a call of DisplayAdapter::drawPixel
DrawPixel ==
  /\ dispPc = "idle"
  /\ draws < MaxDraws
  /\ \E x \in DrawXs, y \in DrawYs, c \in DrawColours :
       frameBuffer' = drawPixel(frameBuffer, rotation, x, y, c)
  /\ draws' = draws + 1
  /\ UNCHANGED <<initialized, rotation, cs, dispPc, row, busLog, refreshes>>
  /\ UNCHANGED notDisp

\* DisplayAdapter::display: enters sendFrameBufferToDisplay
Display ==
  /\ dispPc = "idle"
  /\ refreshes < MaxRefreshes
  /\ dispPc' = "s102"
  /\ busLog' = <<>>
  /\ row' = 0
  /\ UNCHANGED <<frameBuffer, initialized, rotation, cs, refreshes, draws>>
  /\ UNCHANGED notDisp

\* if (!_frameBuffer) return;
Send102 ==
  /\ dispPc = "s102"
  /\ dispPc' = IF IsNull(frameBuffer) THEN "d146" ELSE "s120"
  /\ UNCHANGED <<frameBuffer, initialized, rotation, cs, row, busLog,
                 refreshes, draws>>
  /\ UNCHANGED notDisp

\* one statement of sendFrameBufferToDisplay that drives both chip-selects HIGH
SendCsAll(at, next) ==
  /\ dispPc = at
  /\ cs' = setPinCsAll(cs, GPIO_HIGH)
  /\ busLog' = Append(busLog, BusEvent("csAll", -1, GPIO_HIGH, <<>>, cs'))
  /\ dispPc' = next
  /\ row' = 0
  /\ UNCHANGED <<frameBuffer, initialized, rotation, refreshes, draws>>
  /\ UNCHANGED notDisp

\* one statement of sendFrameBufferToDisplay that asserts one chip-select
SendCs(at, n, next) ==
  /\ dispPc = at
  /\ cs' = setPinCs(cs, n, GPIO_LOW)
  /\ busLog' = Append(busLog, BusEvent("cs", n, GPIO_LOW, <<>>, cs'))
  /\ dispPc' = next
  /\ UNCHANGED <<frameBuffer, initialized, rotation, row, refreshes, draws>>
  /\ UNCHANGED notDisp

\* writeEpdCommand(DTM)
SendCommand(at, next) ==
  /\ dispPc = at
  /\ busLog' = Append(busLog, BusEvent("cmd", -1, DTM, <<>>, cs))
  /\ dispPc' = next
  /\ row' = 0
  /\ UNCHANGED <<frameBuffer, initialized, rotation, cs, refreshes, draws>>
  /\ UNCHANGED notDisp

\* one iteration of a row loop: writeEpdData(_frameBuffer + row * Width + shift, Width1)
SendRow(at, shift, next) ==
  /\ dispPc = at
  /\ IF row < Height
     THEN /\ busLog' = Append(busLog,
                 BusEvent("data", row, row * Width + shift,
                          Slice(frameBuffer, row * Width + shift, Width1), cs))
          /\ row' = row + 1
          /\ dispPc' = at
     ELSE /\ dispPc' = next
          /\ UNCHANGED <<busLog, row>>
  /\ UNCHANGED <<frameBuffer, initialized, rotation, cs, refreshes, draws>>
  /\ UNCHANGED notDisp

\* mutants of the transport statements
Send122_NoCommand ==
  /\ dispPc = "s122"
  /\ dispPc' = "s123"
  /\ row' = 0
  /\ UNCHANGED <<frameBuffer, initialized, rotation, cs, busLog, refreshes, draws>>
  /\ UNCHANGED notDisp
Send127_NoDeassert ==
  /\ dispPc = "s127"
  /\ dispPc' = "s130"
  /\ row' = 0
  /\ UNCHANGED <<frameBuffer, initialized, rotation, cs, busLog, refreshes, draws>>
  /\ UNCHANGED notDisp
Send132_LeftBytes == SendRow("s132", 0, "s136")

Send120 == SendCsAll("s120", "s121")
Send121 == SendCs("s121", 0, "s122")
Send122 == SendCommand("s122", "s123")
Send123 == SendRow("s123", 0, "s127")
Send127 == SendCsAll("s127", "s130")
Send130 == SendCs("s130", 1, "s131")
Send131 == SendCommand("s131", "s132")
Send132 == SendRow("s132", Width1, "s136")
Send136 == SendCsAll("s136", "d146")

\* DisplayAdapter::display after the transfer: epdDisplay() refreshes the panel
EpdDisplay ==
  /\ dispPc = "d146"
  /\ refreshes' = refreshes + 1
  /\ dispPc' = "idle"
  /\ UNCHANGED <<frameBuffer, initialized, rotation, cs, row, busLog, draws>>
  /\ UNCHANGED notDisp

\* DisplayAdapter::hibernate up to the busy wait: both chip-selects LOW, power off
HibernateBegin ==
  /\ dispPc = "idle"
  /\ refreshes > 0
  /\ cs' = setPinCsAll(cs, GPIO_LOW)
  /\ dispPc' = "h154"
  /\ UNCHANGED <<frameBuffer, initialized, rotation, row, busLog, refreshes,
                 draws>>
  /\ UNCHANGED notDisp

\* DisplayAdapter::hibernate after the busy wait
HibernateEnd ==
  /\ dispPc = "h154"
  /\ cs' = setPinCsAll(cs, GPIO_HIGH)
  /\ dispPc' = "hibernated"
  /\ UNCHANGED <<frameBuffer, initialized, rotation, row, busLog, refreshes,
                 draws>>
  /\ UNCHANGED notDisp

TransportInit == DispInit /\ SdParked /\ BootParked /\ PalParked /\ DithParked /\ RendParked /\ DecParked

TransportNext ==
  \/ DisplayInit
  \/ SetRotation
  \/ FillScreen
  \/ DrawPixel
  \/ Display
  \/ Send102
  \/ Send120
  \/ Send121
  \/ Send122
  \/ Send123
  \/ Send127
  \/ Send130
  \/ Send131
  \/ Send132
  \/ Send136
  \/ EpdDisplay
  \/ HibernateBegin
  \/ HibernateEnd

SpecTransport == TransportInit /\ [][TransportNext]_vars

(* ------------------------------------------------------------------ *)
(* Transport claims                                                    *)
(* ------------------------------------------------------------------ *)
\* positions of sendFrameBufferToDisplay after its first chip-select write
AfterFirstCsWrite == {"s121", "s122", "s123", "s127", "s130", "s131", "s132", "s136"}
Asserted(lines) == {n \in DOMAIN lines : lines[n] = GPIO_LOW}
DataEvents(n) ==
  SelectSeq(busLog, LAMBDA e : e.op = "data" /\ e.cs[n] = GPIO_LOW)
TransferDone == dispPc = "d146" /\ ~IsNull(frameBuffer)

\* C1: during sendFrameBufferToDisplay, from its first chip-select write to its
\* return, CS0 and CS1 are never LOW together, and every transfer-data command
\* and every row-data write is issued while exactly one of them is LOW.
C1_ChipSelectsExclusive ==
  /\ dispPc \in AfterFirstCsWrite => Cardinality(Asserted(cs)) <= 1
  /\ \A i \in 1..Len(busLog) :
       /\ Cardinality(Asserted(busLog[i].cs)) <= 1
       /\ busLog[i].op \in {"cmd", "data"} =>
            Cardinality(Asserted(busLog[i].cs)) = 1

\* the right pass has streamed its last row with only CS1 asserted
C1_Witness ==
  /\ dispPc = "s132"
  /\ row = Height
  /\ Asserted(cs) = {1}
  /\ Len(DataEvents(1)) = Height

\* the protocol step an event stands for
StepOf(e) ==
  CASE e.op = "csAll" /\ e.v = GPIO_HIGH /\ Asserted(e.cs) = {} -> "deassertAll"
    [] e.op = "cs" /\ e.n = 0 /\ e.v = GPIO_LOW /\ Asserted(e.cs) = {0} -> "assertLeft"
    [] e.op = "cs" /\ e.n = 1 /\ e.v = GPIO_LOW /\ Asserted(e.cs) = {1} -> "assertRight"
    [] e.op = "cmd" /\ e.v = DTM -> "command"
    [] e.op = "data" /\ (e.v % Width) < Width1 -> "leftRow"
    [] e.op = "data" /\ (e.v % Width) >= Width1 -> "rightRow"
    [] OTHER -> "other"
Steps == [i \in 1..Len(busLog) |-> StepOf(busLog[i])]
Repeat(x, n) == [i \in 1..n |-> x]
Protocol ==
  <<"deassertAll", "assertLeft", "command">> \o Repeat("leftRow", Height) \o
  <<"deassertAll", "assertRight", "command">> \o Repeat("rightRow", Height) \o
  <<"deassertAll">>
IsPrefix(a, b) == Len(a) <= Len(b) /\ a = SubSeq(b, 1, Len(a))

\* C2: the bus events of a transfer are, in this order: deassert all, assert
\* left only, command, all left rows, deassert all, assert right only, command,
\* all right rows, deassert all; while the transfer runs the events so far are
\* a prefix of that sequence.
C2_ProtocolOrder ==
  /\ dispPc \in AfterFirstCsWrite => IsPrefix(Steps, Protocol)
  /\ TransferDone => Steps = Protocol /\ Asserted(cs) = {}

\* a completed transfer with its full event log
C2_Witness == TransferDone /\ Len(busLog) = 2 * Height + 7 /\ refreshes = 0

\* the data events that cover byte i of the packed buffer
Covering(i) ==
  {k \in 1..Len(busLog) :
     /\ busLog[k].op = "data"
     /\ busLog[k].v <= i
     /\ i < busLog[k].v + Len(busLog[k].data)}

\* C3: each pass sends the rows 0..Height-1 in increasing order, once each; the
\* left pass sends bytes [row*Width, row*Width+Width1), the right pass bytes
\* [row*Width+Width1, row*Width+Width); every byte of the buffer is sent
\* exactly once, and the byte of physical pixel (x, y) goes to the left
\* controller iff x < Width.
C3_RowCoverage ==
  TransferDone =>
    /\ \A n \in 0..1 :
         /\ Len(DataEvents(n)) = Height
         /\ \A k \in 1..Height :
              LET e == DataEvents(n)[k]
              IN /\ e.n = k - 1
                 /\ e.v = (k - 1) * Width + n * Width1
                 /\ e.data = Slice(frameBuffer, e.v, Width1)
    /\ \A i \in 0..(FRAME_BUFFER_SIZE - 1) : Cardinality(Covering(i)) = 1
    /\ \A x \in 0..(EPD_NATIVE_WIDTH - 1), y \in 0..(EPD_NATIVE_HEIGHT - 1) :
         \A k \in Covering(PackedIndex(x, y)) :
           (busLog[k].cs[0] = GPIO_LOW) <=> (x < Width)

\* a completed transfer whose left pass carried a drawn (non-white) pixel and
\* whose right pass carried another
C3_Witness ==
  /\ TransferDone
  /\ \E k \in 1..Height, j \in 1..Width1 :
       DataEvents(0)[k].data[j] # WhiteFill
  /\ \E k \in 1..Height, j \in 1..Width1 :
       DataEvents(1)[k].data[j] # WhiteFill

(* ------------------------------------------------------------------ *)
(* PaletteMatcher: findNearestColor                                    *)
(* ------------------------------------------------------------------ *)
Spectra6Palette ==
  [i \in 0..5 |->
     CASE i = 0 -> [r |-> 0, g |-> 0, b |-> 0]
       [] i = 1 -> [r |-> 255, g |-> 255, b |-> 255]
       [] i = 2 -> [r |-> 230, g |-> 230, b |-> 0]
       [] i = 3 -> [r |-> 204, g |-> 0, b |-> 0]
       [] i = 4 -> [r |-> 0, g |-> 51, b |-> 204]
       [] i = 5 -> [r |-> 0, g |-> 204, b |-> 0]]

\* uint32_t minDistance = 0xFFFFFFFF.  TLC's integers end at 2^31 - 1;
\* a distance is at most 3 * 255 * 255 = 195075, so the largest representable
\* value compares with every distance as 0xFFFFFFFF does.
MinDistanceInit == 2147483647

\* uint32_t distance = dr * dr + dg * dg + db * db;  (never wraps: <= 195075)
Distance(i, r, g, b) ==
  LET dr == r - Spectra6Palette[i].r
      dg == g - Spectra6Palette[i].g
      db == b - Spectra6Palette[i].b
  IN dr * dr + dg * dg + db * db

\* the loop of findNearestColor from index i on
RECURSIVE NearestFrom(_, _, _, _, _, _)
NearestFrom(i, minDistance, nearestIndex, r, g, b) ==
  IF i >= 6 THEN nearestIndex
  ELSE IF Distance(i, r, g, b) < minDistance
       THEN NearestFrom(i + 1, Distance(i, r, g, b), i, r, g, b)
       ELSE NearestFrom(i + 1, minDistance, nearestIndex, r, g, b)

\* the loop with <= in place of <: the last nearest entry wins
RECURSIVE NearestFromLast(_, _, _, _, _, _)
NearestFromLast(i, minDistance, nearestIndex, r, g, b) ==
  IF i >= 6 THEN nearestIndex
  ELSE IF Distance(i, r, g, b) <= minDistance
       THEN NearestFromLast(i + 1, Distance(i, r, g, b), i, r, g, b)
       ELSE NearestFromLast(i + 1, minDistance, nearestIndex, r, g, b)
findNearestColor_LastWins(r, g, b) == NearestFromLast(0, MinDistanceInit, 1, r, g, b)

\* findNearestColor
findNearestColor(r, g, b) == NearestFrom(0, MinDistanceInit, 1, r, g, b)

\* channel values the matcher is tried with (after constrain: 0..255)
ChannelSamples ==
  {0, 25, 26, 51, 102, 115, 127, 128, 153, 204, 217, 230, 242, 243, 248, 255}

PalInit ==
  /\ palIn \in ChannelSamples \X ChannelSamples \X ChannelSamples
  /\ palOut = -1

\* a call of findNearestColor
FindNearest ==
  /\ palOut = -1
  /\ palOut' = findNearestColor(palIn[1], palIn[2], palIn[3])
  /\ UNCHANGED palIn
  /\ UNCHANGED notPal

PaletteInit == PalInit /\ DispInit /\ SdParked /\ BootParked /\ DithParked /\ RendParked /\ DecParked
PaletteNext == FindNearest
SpecPalette == PaletteInit /\ [][PaletteNext]_vars

\* squared Euclidean distance to palette entry i
SqDist(i, r, g, b) ==
  ((r - Spectra6Palette[i].r) * (r - Spectra6Palette[i].r))
  + ((g - Spectra6Palette[i].g) * (g - Spectra6Palette[i].g))
  + ((b - Spectra6Palette[i].b) * (b - Spectra6Palette[i].b))

\* C6: findNearestColor returns an entry of minimum squared Euclidean distance
\* over the six palette entries, and of several such entries the lowest index.
C6_NearestLowestIndex ==
  palOut # -1 =>
    /\ palOut \in 0..5
    /\ \A i \in 0..5 :
         SqDist(palOut, palIn[1], palIn[2], palIn[3])
           <= SqDist(i, palIn[1], palIn[2], palIn[3])
    /\ \A i \in 0..5 :
         i < palOut =>
           SqDist(i, palIn[1], palIn[2], palIn[3])
             > SqDist(palOut, palIn[1], palIn[2], palIn[3])

\* a call that had to break a tie: two entries at the minimum distance
C6_Witness ==
  /\ palOut # -1
  /\ \E i \in 0..5 :
       /\ i # palOut
       /\ SqDist(i, palIn[1], palIn[2], palIn[3])
            = SqDist(palOut, palIn[1], palIn[2], palIn[3])

(* ------------------------------------------------------------------ *)
(* ErrorDiffusionQuantizer: ImageScreen::ditherImage                   *)
(* ------------------------------------------------------------------ *)
\* the decoders call ditherImage(buffer, 1200, 1600): the panel dimensions
CANVAS_WIDTH == EPD_NATIVE_WIDTH
CANVAS_HEIGHT == EPD_NATIVE_HEIGHT

\* the value memset(buffer, 0xFFFF, ...) and scaleToFit give a white pixel
RGB565_WHITE == 65535

PlaneNames == {"black", "yellow", "red", "blue", "green"}
Channels == {"r", "g", "b"}

\* int bitmapWidthBytes = (width + 7) / 8; size_t bitmapSize = ... * height
BitmapWidthBytes(width) == (width + 7) \div 8
BitmapSize(width, height) == BitmapWidthBytes(width) * height

\* the product without the division
TruncDiv_NoDivide(a, b) == a

\* integer division rounding toward minus infinity
TruncDiv_Floor(a, b) == a \div b

\* C integer division truncates toward zero
TruncDiv(a, b) == IF a >= 0 THEN a \div b ELSE -((-a) \div b)
\* a value stored into an int16_t
Int16(v) == ((v + 32768) % 65536) - 32768
\* constrain(v, lo, hi)
constrain(v, lo, hi) == IF v < lo THEN lo ELSE IF v > hi THEN hi ELSE v

\* the RGB565 -> RGB888 expansion of ditherImage
Red565(p565) == ((p565 \div 2048) % 32) * 8
Green565(p565) == ((p565 \div 32) % 64) * 4
Blue565(p565) == (p565 % 32) * 8

\* byte = bitMask
OrMask_Assign(byte, bitMask) == bitMask

\* byte |= bitMask
OrMask(byte, bitMask) ==
  IF (byte \div bitMask) % 2 = 1 THEN byte ELSE byte + bitMask

\* the switch on colorIdx with case 1 falling into case 2
PlaneOf_WhiteFallsThrough(colorIdx) ==
  CASE colorIdx = 0 -> "black"
    [] colorIdx = 1 -> "yellow"
    [] colorIdx = 2 -> "yellow"
    [] colorIdx = 3 -> "red"
    [] colorIdx = 4 -> "blue"
    [] colorIdx = 5 -> "green"
    [] OTHER -> "none"

\* the switch on colorIdx: the bitmap that receives the bit, if any
PlaneOf(colorIdx) ==
  CASE colorIdx = 0 -> "black"
    [] colorIdx = 2 -> "yellow"
    [] colorIdx = 3 -> "red"
    [] colorIdx = 4 -> "blue"
    [] colorIdx = 5 -> "green"
    [] OTHER -> "none"

\* the palette channel value of an index
PaletteChannel(colorIdx, c) ==
  CASE c = "r" -> Spectra6Palette[colorIdx].r
    [] c = "g" -> Spectra6Palette[colorIdx].g
    [] c = "b" -> Spectra6Palette[colorIdx].b

\* arr[i] += delta on an int16_t row
AddErr(arr, i, delta) == [arr EXCEPT ![i] = Int16(@ + delta)]

ZeroRows(width) == [c \in Channels |-> [i \in 0..(width - 1) |-> 0]]

\* the state of ditherImage after its allocations and memsets
DitherEntry(width, height) ==
  [x |-> 0, y |-> 0,
   errCurr |-> ZeroRows(width),
   errNext |-> ZeroRows(width),
   planes |-> [pl \in PlaneNames |->
                 [i \in 0..(BitmapSize(width, height) - 1) |-> 0]],
   chosen |-> [i \in 0..(width * height - 1) |-> -1]]

\* one iteration of the inner loop of ditherImage at (st.x, st.y), followed by
\* the row rotation (memcpy / memset) when it was the last pixel of the row
DitherPixelStep(st, buffer, width, height) ==
  LET x == st.x
      y == st.y
      idx == y * width + x
      p565 == buffer[idx]
      adj == [c \in Channels |->
                constrain((CASE c = "r" -> Red565(p565)
                             [] c = "g" -> Green565(p565)
                             [] c = "b" -> Blue565(p565))
                          + st.errCurr[c][x], 0, 255)]
      colorIdx == findNearestColor(adj["r"], adj["g"], adj["b"])
      flippedY == (height - 1) - y
      byteIndex == flippedY * BitmapWidthBytes(width) + (x \div 8)
      bitMask == 2 ^ (7 - (x % 8))
      pl == PlaneOf(colorIdx)
      planes1 == IF pl = "none" THEN st.planes
                 ELSE [st.planes EXCEPT ![pl][byteIndex] = OrMask(@, bitMask)]
      err == [c \in Channels |-> adj[c] - PaletteChannel(colorIdx, c)]
      curr1 == [c \in Channels |->
                  IF x + 1 < width
                  THEN AddErr(st.errCurr[c], x + 1, TruncDiv(err[c] * 7, 16))
                  ELSE st.errCurr[c]]
      nextA == [c \in Channels |->
                  IF y + 1 < height /\ x > 0
                  THEN AddErr(st.errNext[c], x - 1, TruncDiv(err[c] * 3, 16))
                  ELSE st.errNext[c]]
      nextB == [c \in Channels |->
                  IF y + 1 < height
                  THEN AddErr(nextA[c], x, TruncDiv(err[c] * 5, 16))
                  ELSE nextA[c]]
      nextC == [c \in Channels |->
                  IF y + 1 < height /\ x + 1 < width
                  THEN AddErr(nextB[c], x + 1, TruncDiv(err[c] * 1, 16))
                  ELSE nextB[c]]
      rowEnd == x + 1 >= width
  IN [x |-> IF rowEnd THEN 0 ELSE x + 1,
      y |-> IF rowEnd THEN y + 1 ELSE y,
      errCurr |-> IF rowEnd THEN nextC ELSE curr1,
      errNext |-> IF rowEnd THEN ZeroRows(width) ELSE nextC,
      planes |-> planes1,
      chosen |-> [st.chosen EXCEPT ![idx] = colorIdx]]

\* RGB565 values the canvases are built from: white, black, the four palette
\* colours as RGB565, and a mid grey
PixelSamples == {RGB565_WHITE, 0, 59168, 51200, 409, 1632, 33808}

Uniform(width, height, p) == [i \in 0..(width * height - 1) |-> p]
Checker(width, height, p, q) ==
  [i \in 0..(width * height - 1) |->
     IF ((i % width) + (i \div width)) % 2 = 0 THEN p ELSE q]

\* the canvases ditherImage is run on
CanvasSamples ==
  {Uniform(CANVAS_WIDTH, CANVAS_HEIGHT, p) : p \in PixelSamples}
  \cup {Checker(CANVAS_WIDTH, CANVAS_HEIGHT, pq[1], pq[2]) :
          pq \in {v \in PixelSamples \X PixelSamples : v[1] < v[2]}}

DithInit ==
  /\ rgb565Buffer \in CanvasSamples
  /\ dithPc = "idle"
  /\ dithX = 0
  /\ dithY = 0
  /\ errCurr = NullBuffer
  /\ errNext = NullBuffer
  /\ planes = NullBuffer
  /\ chosen = NullBuffer

\* ditherImage up to its loops: the five ps_malloc and six calloc.  A failed
\* ps_malloc returns nullptr; a failed calloc is not checked and the first
\* store through it faults.
DitherStart ==
  /\ dithPc = "idle"
  /\ \E outcome \in {"ok", "bitmapsFailed", "errRowsFailed"} :
       \/ /\ outcome = "ok"
          /\ LET st == DitherEntry(CANVAS_WIDTH, CANVAS_HEIGHT)
             IN /\ errCurr' = st.errCurr
                /\ errNext' = st.errNext
                /\ planes' = st.planes
                /\ chosen' = st.chosen
          /\ dithPc' = "loop"
       \/ /\ outcome = "bitmapsFailed"
          /\ dithPc' = "failed"
          /\ UNCHANGED <<errCurr, errNext, planes, chosen>>
       \/ /\ outcome = "errRowsFailed"
          /\ dithPc' = "crashed"
          /\ UNCHANGED <<errCurr, errNext, planes, chosen>>
  /\ UNCHANGED <<rgb565Buffer, dithX, dithY>>
  /\ UNCHANGED notDith

\* one pixel of ditherImage; after the last one the function returns the bitmaps
DitherPixel ==
  /\ dithPc = "loop"
  /\ LET st == DitherPixelStep(
                 [x |-> dithX, y |-> dithY, errCurr |-> errCurr,
                  errNext |-> errNext, planes |-> planes, chosen |-> chosen],
                 rgb565Buffer, CANVAS_WIDTH, CANVAS_HEIGHT)
     IN /\ dithX' = st.x
        /\ dithY' = st.y
        /\ errCurr' = st.errCurr
        /\ errNext' = st.errNext
        /\ planes' = st.planes
        /\ chosen' = st.chosen
        /\ dithPc' = IF st.y >= CANVAS_HEIGHT THEN "done" ELSE "loop"
  /\ UNCHANGED rgb565Buffer
  /\ UNCHANGED notDith

DitherInit == DithInit /\ DispInit /\ SdParked /\ BootParked /\ PalParked /\ RendParked /\ DecParked
DitherNext == DitherStart \/ DitherPixel
SpecDither == DitherInit /\ [][DitherNext]_vars

(* ------------------------------------------------------------------ *)
(* Quantizer claims                                                    *)
(* ------------------------------------------------------------------ *)
\* the planes with the bit of canvas pixel (x, y) set: row height-1-y,
\* byte x / 8 of the row, most significant bit first
PlanesSetAt(x, y) ==
  {pl \in PlaneNames :
     (planes[pl][((CANVAS_HEIGHT - 1 - y) * BitmapWidthBytes(CANVAS_WIDTH))
                 + (x \div 8)] \div (2 ^ (7 - (x % 8)))) % 2 = 1}
Running == dithPc \in {"loop", "done"}

\* C5: after ditherImage every pixel has been given one palette index 0..5; at
\* each pixel position at most one of the five planes has its bit set, exactly
\* one when the index is not White (1) and none when it is White.  (While the
\* loop runs the same holds of the pixels visited so far, and no bit is set
\* for a pixel not yet visited.)
C5_OneIndexPerPixel ==
  Running =>
    /\ dithPc = "done" =>
         \A i \in 0..(CANVAS_WIDTH * CANVAS_HEIGHT - 1) : chosen[i] \in 0..5
    /\ \A x \in 0..(CANVAS_WIDTH - 1), y \in 0..(CANVAS_HEIGHT - 1) :
         LET c == chosen[y * CANVAS_WIDTH + x]
         IN /\ Cardinality(PlanesSetAt(x, y)) <= 1
            /\ c = -1 => PlanesSetAt(x, y) = {}
            /\ c = 1 => PlanesSetAt(x, y) = {}
            /\ c \in {0, 2, 3, 4, 5} => Cardinality(PlanesSetAt(x, y)) = 1

\* a finished pass that chose White for some pixels and at least two other
\* indices for others
C5_Witness ==
  /\ dithPc = "done"
  /\ 1 \in {chosen[i] : i \in DOMAIN chosen}
  /\ Cardinality({chosen[i] : i \in DOMAIN chosen}) >= 3

\* C7: ditherImage on a canvas whose every pixel is 0xFFFF sets no bit in any
\* of the five planes.
C7_WhiteCanvasEmptyPlanes ==
  (Running /\ rgb565Buffer = Uniform(CANVAS_WIDTH, CANVAS_HEIGHT, RGB565_WHITE))
    => \A pl \in PlaneNames : \A i \in DOMAIN planes[pl] : planes[pl][i] = 0

(* ------------------------------------------------------------------ *)
(* FrameBufferPacker: ImageScreen::renderBitmaps over drawBitmap       *)
(* ------------------------------------------------------------------ *)
\* Adafruit_GFX::width() / height(): the logical size under a rotation
DisplayWidth(rot) == IF rot % 2 = 1 THEN EPD_NATIVE_HEIGHT ELSE EPD_NATIVE_WIDTH
DisplayHeight(rot) == IF rot % 2 = 1 THEN EPD_NATIVE_WIDTH ELSE EPD_NATIVE_HEIGHT

\* Adafruit_GFX::drawBitmap, the inner loop over i of row j: a set bit, most
\* significant first, of byte j * byteWidth + i / 8 draws (x + i, y + j).
\* Without a framebuffer every drawPixel returns at once.
RECURSIVE drawBitmapRow(_, _, _, _, _, _, _, _, _)
drawBitmapRow(i, fb, rot, x, y, j, bitmap, w, color) ==
  IF i >= w \/ IsNull(fb) THEN fb
  ELSE LET byte == bitmap[j * ((w + 7) \div 8) + (i \div 8)]
           bitSet == (byte \div (2 ^ (7 - (i % 8)))) % 2 = 1
       IN drawBitmapRow(i + 1,
                        IF bitSet THEN drawPixel(fb, rot, x + i, y + j, color)
                        ELSE fb,
                        rot, x, y, j, bitmap, w, color)

\* Adafruit_GFX::drawBitmap, the outer loop over the rows j
RECURSIVE drawBitmapRows(_, _, _, _, _, _, _, _, _)
drawBitmapRows(j, fb, rot, x, y, bitmap, w, h, color) ==
  IF j >= h \/ IsNull(fb) THEN fb
  ELSE drawBitmapRows(j + 1,
                      drawBitmapRow(0, fb, rot, x, y, j, bitmap, w, color),
                      rot, x, y, bitmap, w, h, color)

drawBitmap(fb, rot, x, y, bitmap, w, h, color) ==
  drawBitmapRows(0, fb, rot, x, y, bitmap, w, h, color)

\* ImageScreen::renderBitmaps on bitmaps of size w * h
renderBitmaps(fb, rot, bm, w, h) ==
  LET imageX == Max(0, IF w < DisplayWidth(rot)
                       THEN (DisplayWidth(rot) - w) \div 2 ELSE 0)
      imageY == Max(0, IF h < DisplayHeight(rot)
                       THEN (DisplayHeight(rot) - h) \div 2 ELSE 0)
      fb1 == drawBitmap(fb, rot, imageX, imageY, bm["black"], w, h, BLACK)
      fb2 == drawBitmap(fb1, rot, imageX, imageY, bm["yellow"], w, h, YELLOW)
      fb3 == drawBitmap(fb2, rot, imageX, imageY, bm["red"], w, h, RED)
      fb4 == drawBitmap(fb3, rot, imageX, imageY, bm["blue"], w, h, BLUE)
  IN drawBitmap(fb4, rot, imageX, imageY, bm["green"], w, h, GREEN)

\* ImageScreen::render enters: display.init(115200)
Render791 ==
  /\ renderPc = "r791"
  /\ DisplayInitBody
  /\ renderPc' = "r792"
  /\ UNCHANGED <<localFile, httpResult>>
  /\ UNCHANGED notRend

\* display.setRotation(ApplicationConfig::DISPLAY_ROTATION); setFullWindow();
\* fillScreen(GxEPD_WHITE).  The configured rotation is a build constant in 0..3.
Render792 ==
  /\ renderPc = "r792"
  /\ \E r \in Rotations :
       /\ rotation' = r % 4
       /\ frameBuffer' = fillScreen(frameBuffer, WHITE)
  /\ renderPc' = "r797"
  /\ UNCHANGED <<localFile, httpResult>>
  /\ UNCHANGED <<initialized, cs, dispPc, row, busLog, refreshes, draws>>
  /\ UNCHANGED notRend

\* loadFromLittleFS as far as the quantizer: ditherImage on the decoded canvas
Render797 ==
  /\ renderPc = "r797"
  /\ DitherStart \/ DitherPixel

\* if (bitmaps) renderBitmaps(*bitmaps); without bitmaps nothing is drawn
Render799 ==
  /\ renderPc = "r797"
  /\ dithPc \in {"done", "failed"}
  /\ frameBuffer' =
       IF dithPc = "done"
       THEN renderBitmaps(frameBuffer, rotation, planes, CANVAS_WIDTH, CANVAS_HEIGHT)
       ELSE frameBuffer
  /\ renderPc' = IF dithPc = "done" THEN "r802" ELSE "r809"
  /\ UNCHANGED <<localFile, httpResult>>
  /\ UNCHANGED <<initialized, rotation, cs, dispPc, row, busLog, refreshes, draws>>
  /\ UNCHANGED notRend

PackInit ==
  /\ DispInit /\ SdParked /\ BootParked /\ DithInit /\ PalParked /\ DecParked
  /\ renderPc = "r791" /\ localFile = NoFile /\ httpResult = NoHttp
PackNext == Render791 \/ Render792 \/ Render797 \/ Render799
SpecPack == PackInit /\ [][PackNext]_vars

(* ------------------------------------------------------------------ *)
(* Packer claim                                                        *)
(* ------------------------------------------------------------------ *)
\* the nibble of physical pixel (x, y) in the packed buffer
NibbleAt(x, y) ==
  LET byte == frameBuffer[(y * EPD_NATIVE_WIDTH + x) \div 2]
  IN IF x % 2 = 0 THEN byte \div 16 ELSE byte % 16
\* the planes whose bit (x, r) is set: byte r * ceil(width/8) + x / 8, MSB first
PlanesWithBit(x, r) ==
  {pl \in PlaneNames :
     (planes[pl][(r * BitmapWidthBytes(CANVAS_WIDTH)) + (x \div 8)]
        \div (2 ^ (7 - (x % 8)))) % 2 = 1}
CodeOfPlane(pl) ==
  CASE pl = "black" -> BLACK
    [] pl = "yellow" -> YELLOW
    [] pl = "red" -> RED
    [] pl = "blue" -> BLUE
    [] pl = "green" -> GREEN
Packed == renderPc = "r802" /\ rotation = 0 /\ ~IsNull(frameBuffer)

\* C8: with rotation 0 and the buffer first filled with White, after
\* renderBitmaps the nibble of pixel (x, row) - high nibble of byte
\* (row*width+x)/2 for even x, low nibble for odd x - holds the code of the one
\* plane set at (x, row) of the bitplanes, and White's code where none is set;
\* the row is the bitplane row, not flipped again.
C8_PackRoundTrip ==
  Packed =>
    \A x \in 0..(EPD_NATIVE_WIDTH - 1), r \in 0..(EPD_NATIVE_HEIGHT - 1) :
      /\ PlanesWithBit(x, r) = {} => NibbleAt(x, r) = WHITE % 16
      /\ \A pl \in PlaneNames :
           PlanesWithBit(x, r) = {pl} => NibbleAt(x, r) = CodeOfPlane(pl) % 16

\* a packed buffer that holds white pixels and pixels of two other colours,
\* with different colours in the top and the bottom row
C8_Witness ==
  /\ Packed
  /\ Cardinality({NibbleAt(x, r) : x \in 0..(EPD_NATIVE_WIDTH - 1),
                                   r \in 0..(EPD_NATIVE_HEIGHT - 1)}) >= 3
  /\ \E x \in 0..(EPD_NATIVE_WIDTH - 1) :
       NibbleAt(x, 0) # NibbleAt(x, EPD_NATIVE_HEIGHT - 1)

(* ------------------------------------------------------------------ *)
(* Single-precision arithmetic of scaleToFit                           *)
(* ------------------------------------------------------------------ *)
\* A positive float is [m, e] with value m * 2^e and 2^23 <= m < 2^24.  The
\* operands below are integers under 128, so every intermediate fits TLC's
\* 32-bit integers.
FltOne == [m |-> 2 ^ 23, e |-> -23]

\* m * 2^e with m = 2^24 after a round-up: renormalised
FltNorm(m, e) == IF m = 2 ^ 24 THEN [m |-> 2 ^ 23, e |-> e + 1] ELSE [m |-> m, e |-> e]

\* binary long division of a by b, one quotient bit per step, until the
\* quotient has 24 bits: q = floor(a * 2^k / b), r = (a * 2^k) mod b.  (No
\* intermediate value exceeds 2^24 or 2 * b, within TLC's integers.)
RECURSIVE QuotShift(_, _, _, _)
QuotShift(q, r, b, k) ==
  IF q >= 2 ^ 23 THEN [q |-> q, r |-> r, k |-> k]
  ELSE IF 2 * r >= b THEN QuotShift((2 * q) + 1, (2 * r) - b, b, k + 1)
  ELSE QuotShift(2 * q, 2 * r, b, k + 1)

\* (float)a / (float)b, rounded to nearest, ties to even
FltDiv(a, b) ==
  LET d == QuotShift(a \div b, a % b, b, 0)
      up == (2 * d.r > b) \/ (2 * d.r = b /\ d.q % 2 = 1)
  IN FltNorm(IF up THEN d.q + 1 ELSE d.q, -d.k)

\* f < g
FltLess(f, g) == f.e < g.e \/ (f.e = g.e /\ f.m < g.m)

\* how many bits h has beyond 12
RECURSIVE ExcessBits(_)
ExcessBits(h) == IF h < 2 ^ 12 THEN 0 ELSE 1 + ExcessBits(h \div 2)

\* n * f with n converted to float, rounded to nearest, ties to even.  The
\* product n * f.m is kept as hi * 2^12 + lo, for n below 2^12, so that no
\* intermediate value leaves TLC's integers.
FltMulInt(n, f) ==
  LET mh == f.m \div (2 ^ 12)
      ml == f.m % (2 ^ 12)
      hi == (n * mh) + ((n * ml) \div (2 ^ 12))
      lo == (n * ml) % (2 ^ 12)
      s == ExcessBits(hi)
      q == (hi * (2 ^ (12 - s))) + (lo \div (2 ^ s))
      r == lo % (2 ^ s)
      half == IF s = 0 THEN 1 ELSE 2 ^ (s - 1)
      up == s > 0 /\ ((r > half) \/ (r = half /\ q % 2 = 1))
  IN FltNorm(IF up THEN q + 1 ELSE q, f.e + s)

\* (uint32_t)f: truncation toward zero
FltToUint(f) ==
  IF f.e >= 0 THEN f.m * (2 ^ f.e)
  ELSE IF -f.e > 30 THEN 0
  ELSE f.m \div (2 ^ (-f.e))

(* ------------------------------------------------------------------ *)
(* Rescaler: scaleToFit                                                *)
(* ------------------------------------------------------------------ *)
\* the locals of scaleToFit from the scale on, for a destination dstW x dstH
ScaleGeometryAt(dstW, dstH, srcW, srcH) ==
  LET scaleX == FltDiv(dstW, srcW)
      scaleY == FltDiv(dstH, srcH)
      scale == IF FltLess(scaleX, scaleY) THEN scaleX ELSE scaleY
      scaledW == Min(FltToUint(FltMulInt(srcW, scale)), dstW)
      scaledH == Min(FltToUint(FltMulInt(srcH, scale)), dstH)
  IN [scale |-> scale, scaledW |-> scaledW, scaledH |-> scaledH,
      offsetX |-> (dstW - scaledW) \div 2,
      offsetY |-> (dstH - scaledH) \div 2]

\* the locals of scaleToFit(buffer, srcW, srcH) on the modelled panel
ScaleGeometry(srcW, srcH) ==
  ScaleGeometryAt(CANVAS_WIDTH, CANVAS_HEIGHT, srcW, srcH)

\* the copy loop reads buffer[y * dstW + x] for y < srcH, x < srcW: is one of
\* these past the end of the canvas?
ScaleReadsOutside(srcW, srcH) ==
  ((srcH - 1) * CANVAS_WIDTH) + srcW > CANVAS_WIDTH * CANVAS_HEIGHT

\* srcCopy after the memcpy loop; a read past the canvas yields stray
SrcCopy(buffer, srcW, srcH, stray) ==
  [i \in 0..(srcW * srcH - 1) |->
     LET at == ((i \div srcW) * CANVAS_WIDTH) + (i % srcW)
     IN IF at < CANVAS_WIDTH * CANVAS_HEIGHT THEN buffer[at] ELSE stray]

\* the nearest-neighbour loop storing at (dx, dy) instead of
\* (dx + offsetX, dy + offsetY)
ScaledCanvas_NoOffset(srcCopy, srcW, srcH, g) ==
  [i \in 0..(CANVAS_WIDTH * CANVAS_HEIGHT - 1) |->
     LET dx == i % CANVAS_WIDTH
         dy == i \div CANVAS_WIDTH
     IN IF dx < g.scaledW /\ dy < g.scaledH
        THEN srcCopy[(Min((dy * srcH) \div g.scaledH, srcH - 1) * srcW)
                     + Min((dx * srcW) \div g.scaledW, srcW - 1)]
        ELSE RGB565_WHITE]

\* the canvas after the white fill and the nearest-neighbour loop
ScaledCanvas(srcCopy, srcW, srcH, g) ==
  [i \in 0..(CANVAS_WIDTH * CANVAS_HEIGHT - 1) |->
     LET dx == (i % CANVAS_WIDTH) - g.offsetX
         dy == (i \div CANVAS_WIDTH) - g.offsetY
     IN IF dx >= 0 /\ dx < g.scaledW /\ dy >= 0 /\ dy < g.scaledH
        THEN srcCopy[(Min((dy * srcH) \div g.scaledH, srcH - 1) * srcW)
                     + Min((dx * srcW) \div g.scaledW, srcW - 1)]
        ELSE RGB565_WHITE]

\* scaleToFit: the canvas it leaves and its locals.  copyOk is the outcome of
\* ps_malloc(srcSize), stray the value read past the end of the canvas.
scaleToFit(buffer, srcW, srcH, copyOk, stray) ==
  IF srcW >= CANVAS_WIDTH /\ srcH >= CANVAS_HEIGHT
  THEN [buffer |-> buffer,
        run |-> [called |-> TRUE, srcW |-> srcW, srcH |-> srcH, copied |-> FALSE]]
  ELSE IF ~copyOk
  THEN [buffer |-> buffer,
        run |-> [called |-> TRUE, srcW |-> srcW, srcH |-> srcH, copied |-> FALSE]]
  ELSE LET g == ScaleGeometry(srcW, srcH)
       IN [buffer |-> ScaledCanvas(SrcCopy(buffer, srcW, srcH, stray), srcW, srcH, g),
           run |-> [called |-> TRUE, srcW |-> srcW, srcH |-> srcH, copied |-> TRUE,
                    scale |-> g.scale, scaledW |-> g.scaledW, scaledH |-> g.scaledH,
                    offsetX |-> g.offsetX, offsetY |-> g.offsetY]]

(* ------------------------------------------------------------------ *)
(* Input buffers                                                       *)
(* ------------------------------------------------------------------ *)
\* the tile edge of the JPEG decoder's output blocks (one MCU)
McuSize == 8

\* the RGB565 value of source pixel (x, t), t counted from the top row; every
\* pixel of a sample image has its own value, none of them white
Src565(x, t) == ((t % 32) * 2048) + ((x % 64) * 32) + ((x + t) % 32)

\* the same pixel as 8-bit channels of a 24-bit BMP (low bits set, so the
\* conversion to RGB565 has something to drop)
SrcRGB(x, t) ==
  [r |-> ((Src565(x, t) \div 2048) * 8) + 5,
   g |-> (((Src565(x, t) \div 32) % 64) * 4) + 2,
   b |-> ((Src565(x, t) % 32) * 8) + 3]

\* uint32_t rowSize = ((imageWidth * bitsPerPixel + 31) / 32) * 4
RowSize(width, bitsPerPixel) == (((width * bitsPerPixel) + 31) \div 32) * 4

\* byte k of the little-endian encoding of v
LeByte(v, k) == (v \div (256 ^ k)) % 256

\* byte i of the input buffer d: the four leading bytes as given, then for a
\* BMP the header fields and the bottom-up BGR pixel array with padded rows
DataByte(d, i) ==
  IF i < 4 THEN d.head[i + 1]
  ELSE IF i \in 10..13 THEN LeByte(d.off, i - 10)
  ELSE IF i \in 18..21 THEN LeByte(d.w, i - 18)
  ELSE IF i \in 22..25 THEN LeByte(d.h, i - 22)
  ELSE IF i \in 28..29 THEN LeByte(d.bpp, i - 28)
  ELSE IF i \in 30..33 THEN LeByte(d.comp, i - 30)
  ELSE IF i >= d.off /\ d.bpp = 24
  THEN LET k == (i - d.off) \div RowSize(d.w, 24)
           c == (i - d.off) % RowSize(d.w, 24)
           px == SrcRGB(c \div 3, (d.h - 1) - k)
       IN IF c >= 3 * d.w THEN 0
          ELSE CASE c % 3 = 0 -> px.b
                 [] c % 3 = 1 -> px.g
                 [] c % 3 = 2 -> px.r
  ELSE 0

\* leading bytes the dispatch is tried with: each magic, and near misses
Heads == {255, 137, 66, 0} \X {216, 80, 77} \X {78, 0} \X {71, 0}

\* source dimensions: below, at and above the panel's
SrcWidths == {5, CANVAS_WIDTH \div 2, CANVAS_WIDTH, 2 * CANVAS_WIDTH}
SrcHeights == {CANVAS_HEIGHT \div 2, CANVAS_HEIGHT, 2 * CANVAS_HEIGHT}

\* buffers of 0, 3 and 4 bytes for the dispatch; none holds an image
DispatchSamples ==
  {[size |-> n, head |-> SubSeq(hd, 1, Min(n, 4)), w |-> 0, h |-> 0,
    bpp |-> 0, comp |-> 0, off |-> 0, lib |-> "badHeader"] :
     n \in {0, 3, 4}, hd \in Heads}

JpegSamples ==
  {[size |-> 64, head |-> <<255, 216, 255, 224>>, w |-> sw, h |-> sh,
    bpp |-> 0, comp |-> 0, off |-> 0, lib |-> l] :
     sw \in SrcWidths, sh \in SrcHeights, l \in {"ok", "badBody"}}

PngSamples ==
  {[size |-> 64, head |-> <<137, 80, 78, 71>>, w |-> sw, h |-> sh,
    bpp |-> 0, comp |-> 0, off |-> 0, lib |-> l] :
     sw \in SrcWidths, sh \in SrcHeights, l \in {"ok", "badBody"}}

\* well-formed BMP files: 54-byte header, a 1024-byte colour table for 8 bits
BmpFile(sw, sh, bits, cmp) ==
  LET off == 54 + (IF bits = 8 THEN 1024 ELSE 0)
      size == off + (RowSize(sw, bits) * sh)
  IN [size |-> size, head |-> <<66, 77, size % 256, (size \div 256) % 256>>,
      w |-> sw, h |-> sh, bpp |-> bits, comp |-> cmp, off |-> off,
      lib |-> "ok"]
BmpSamples ==
  {BmpFile(sw, sh, bits, cmp) :
     sw \in SrcWidths, sh \in SrcHeights, bits \in {8, 24, 32}, cmp \in {0, 1}}

Inputs == DispatchSamples \cup JpegSamples \cup PngSamples \cup BmpSamples

\* values a read past the end of a buffer may yield
StrayValues == {0, RGB565_WHITE}

(* ------------------------------------------------------------------ *)
(* Decoder callbacks                                                   *)
(* ------------------------------------------------------------------ *)
\* each 16-bit element after memset(buffer, v, bytes): memset stores the low
\* byte of v into every byte
Memset16(v) == ((v % 256) * 256) + (v % 256)
WhiteCanvas == Uniform(CANVAS_WIDTH, CANVAS_HEIGHT, Memset16(RGB565_WHITE))

\* jpgOutput writing tile pixel (i, j) to canvas position (i, j)
jpgOutput_NoOffset(buffer, x, y, w, h, bitmap) ==
  IF y >= CANVAS_HEIGHT \/ x >= CANVAS_WIDTH THEN buffer
  ELSE [idx \in DOMAIN buffer |->
          LET curX == idx % CANVAS_WIDTH
              curY == idx \div CANVAS_WIDTH
          IN IF curX < w /\ curY < h
             THEN bitmap[(curY * w) + curX]
             ELSE buffer[idx]]

\* ImageScreen::jpgOutput on the canvas
jpgOutput(buffer, x, y, w, h, bitmap) ==
  IF y >= CANVAS_HEIGHT \/ x >= CANVAS_WIDTH THEN buffer
  ELSE [idx \in DOMAIN buffer |->
          LET curX == idx % CANVAS_WIDTH
              curY == idx \div CANVAS_WIDTH
          IN IF curX >= x /\ curX < x + w /\ curY >= y /\ curY < y + h
             THEN bitmap[((curY - y) * w) + (curX - x)]
             ELSE buffer[idx]]

\* the block the JPEG decoder hands over for the tile at (x, y)
TileBitmap(x, y, w, h) ==
  [k \in 0..((w * h) - 1) |-> Src565(x + (k % w), y + (k \div w))]

\* TJpgDec.drawJpg(0, 0, ...) on a w x h image: jpgOutput once per tile, row
\* by row, edge tiles clipped to the image
RECURSIVE DrawTiles(_, _, _, _)
DrawTiles(buffer, w, h, n) ==
  LET nx == (w + McuSize - 1) \div McuSize
      ny == (h + McuSize - 1) \div McuSize
      x == (n % nx) * McuSize
      y == (n \div nx) * McuSize
      tw == Min(McuSize, w - x)
      th == Min(McuSize, h - y)
  IN IF n >= nx * ny THEN buffer
     ELSE DrawTiles(jpgOutput(buffer, x, y, tw, th, TileBitmap(x, y, tw, th)),
                    w, h, n + 1)
drawJpg(buffer, w, h) == DrawTiles(buffer, w, h, 0)

\* pngDrawCallback for scanline y of width iWidth, tempLine as converted by
\* getLineAsRGB565
pngDrawCallback(buffer, y, iWidth, tempLine) ==
  IF y >= CANVAS_HEIGHT THEN buffer
  ELSE LET copyWidth == IF iWidth > CANVAS_WIDTH THEN CANVAS_WIDTH ELSE iWidth
       IN [idx \in DOMAIN buffer |->
             IF idx >= y * CANVAS_WIDTH /\ idx < (y * CANVAS_WIDTH) + copyWidth
             THEN tempLine[idx - (y * CANVAS_WIDTH)]
             ELSE buffer[idx]]

\* png->decode: the callback once per scanline, top to bottom
RECURSIVE PngLines(_, _, _, _)
PngLines(buffer, w, h, y) ==
  IF y >= h THEN buffer
  ELSE PngLines(pngDrawCallback(buffer, y, w, [x \in 0..(w - 1) |-> Src565(x, y)]),
                w, h, y + 1)
pngDecode(buffer, w, h) == PngLines(buffer, w, h, 0)

\* the four little-endian header bytes at offset at
Le32(d, at) ==
  DataByte(d, at) + (256 * DataByte(d, at + 1)) + (65536 * DataByte(d, at + 2))
    + (16777216 * DataByte(d, at + 3))
Le16(d, at) == DataByte(d, at) + (256 * DataByte(d, at + 1))

\* the header fields decodeBMP extracts
BmpHeader(d) ==
  [dataOffset |-> Le32(d, 10), imageWidth |-> Le32(d, 18),
   imageHeight |-> Le32(d, 22), bitsPerPixel |-> Le16(d, 28),
   compression |-> Le32(d, 30)]

\* uint16_t(r5 << 11) | (g6 << 5) | b5 of the bytes b, g, r; the three fields
\* do not overlap, so the OR is their sum
Rgb565Of(r, g, b) ==
  (((r \div 8) % 32) * 2048) + (((g \div 4) % 64) * 32) + ((b \div 8) % 32)

\* the inner loop of the 24-bit branch for row y, entered with dataIndex:
\* pixel x is read after x pixels of three bytes each were read or skipped
BmpRow(buffer, d, hdr, y, dataIndex) ==
  [idx \in DOMAIN buffer |->
     LET x == idx - (y * CANVAS_WIDTH)
         at == dataIndex + (3 * x)
     IN IF y < CANVAS_HEIGHT /\ x >= 0 /\ x < CANVAS_WIDTH /\ x < hdr.imageWidth
        THEN Rgb565Of(DataByte(d, at + 2), DataByte(d, at + 1), DataByte(d, at))
        ELSE buffer[idx]]

\* the 24-bit branch reading the file rows into canvas rows 0, 1, 2, ...
BmpFill_TopDown(buffer, d, hdr) ==
  [idx \in DOMAIN buffer |->
     LET x == idx % CANVAS_WIDTH
         y == idx \div CANVAS_WIDTH
         at == hdr.dataOffset + (y * RowSize(hdr.imageWidth, 24)) + (3 * x)
     IN IF x < hdr.imageWidth /\ y < hdr.imageHeight
        THEN Rgb565Of(DataByte(d, at + 2), DataByte(d, at + 1), DataByte(d, at))
        ELSE buffer[idx]]

\* the outer loop of the 24-bit branch: for (int y = imageHeight - 1; y >= 0;
\* y--), each row followed by dataIndex += rowSize - imageWidth * 3
RECURSIVE BmpRows(_, _, _, _, _)
BmpRows(buffer, d, hdr, y, dataIndex) ==
  IF y < 0 THEN buffer
  ELSE BmpRows(BmpRow(buffer, d, hdr, y, dataIndex), d, hdr, y - 1,
               (dataIndex + (3 * hdr.imageWidth))
                 + (RowSize(hdr.imageWidth, 24) - (hdr.imageWidth * 3)))

\* the pixel loops of the 24-bit branch, entered with dataIndex = dataOffset
BmpFill(buffer, d, hdr) ==
  BmpRows(buffer, d, hdr, hdr.imageHeight - 1, hdr.dataOffset)

(* ------------------------------------------------------------------ *)
(* FormatDispatcher and decoders: ImageScreen::processImageData        *)
(* ------------------------------------------------------------------ *)
\* the PNG test with the fourth byte left out
IsPng_ThreeBytes(d) == d.head[1] = 137 /\ d.head[2] = 80 /\ d.head[3] = 78

\* data[0] == 0xFF && data[1] == 0xD8
IsJpeg(d) == d.head[1] = 255 /\ d.head[2] = 216
\* data[0] == 0x89 && data[1] == 'P' && data[2] == 'N' && data[3] == 'G'
IsPng(d) == d.head[1] = 137 /\ d.head[2] = 80 /\ d.head[3] = 78 /\ d.head[4] = 71
\* data[0] == 'B' && data[1] == 'M'
IsBmp(d) == d.head[1] = 66 /\ d.head[2] = 77

\* the decoder processImageData hands the buffer to
Dispatch(d) ==
  IF d.size < 4 THEN "none"
  ELSE IF IsJpeg(d) THEN "jpg"
  ELSE IF IsPng(d) THEN "png"
  ELSE IF IsBmp(d) THEN "bmp"
  ELSE "none"

dithOnly == <<dithPc, dithX, dithY, errCurr, errNext, planes, chosen>>

\* a return of nullptr from processImageData or a decoder
ReturnNull ==
  /\ result' = "null"
  /\ decPc' = "returned"

DecInit ==
  /\ data \in Inputs
  /\ decPc = "idle"
  /\ decoder = "none"
  /\ result = "pending"
  /\ scaleRun = NoScale
  /\ heap = {}

\* processImageData: size check and format detection
ProcessImageData ==
  /\ decPc = "idle"
  /\ decoder' = Dispatch(data)
  /\ CASE Dispatch(data) = "jpg" -> decPc' = "jpg391" /\ UNCHANGED result
       [] Dispatch(data) = "png" -> decPc' = "png533" /\ UNCHANGED result
       [] Dispatch(data) = "bmp" -> decPc' = "bmp583" /\ UNCHANGED result
       [] OTHER -> ReturnNull
  /\ UNCHANGED <<data, scaleRun, heap>>
  /\ UNCHANGED <<bootVars, sdVars, dispVars, palVars, dithVars, rendVars>>

\* decodeJPG: ps_malloc of the canvas and memset to white
DecodeJPG391 ==
  /\ decPc = "jpg391"
  /\ \E ok \in BOOLEAN :
       IF ok
       THEN /\ rgb565Buffer' = WhiteCanvas
            /\ heap' = heap \cup {"canvas"}
            /\ decPc' = "jpg402"
            /\ UNCHANGED result
       ELSE /\ ReturnNull
            /\ UNCHANGED <<rgb565Buffer, heap>>
  /\ UNCHANGED <<data, decoder, scaleRun, dithOnly>>
  /\ UNCHANGED <<bootVars, sdVars, dispVars, palVars, rendVars>>

\* decodeJPG: getJpgSize and drawJpg; on a decoder error the canvas is freed
DecodeJPG402 ==
  /\ decPc = "jpg402"
  /\ IF data.lib = "ok"
     THEN /\ rgb565Buffer' = drawJpg(rgb565Buffer, data.w, data.h)
          /\ decPc' = "jpg412"
          /\ UNCHANGED <<result, heap>>
     ELSE /\ heap' = heap \ {"canvas"}
          /\ ReturnNull
          /\ UNCHANGED rgb565Buffer
  /\ UNCHANGED <<data, decoder, scaleRun, dithOnly>>
  /\ UNCHANGED <<bootVars, sdVars, dispVars, palVars, rendVars>>

\* a call scaleToFit(rgb565Buffer, srcW, srcH) that continues at next: the
\* temporary copy is allocated or not; where the copy loop reads past the end
\* of the canvas it gets stray values or the access faults
ScaleCall(srcW, srcH, next) ==
  \E copyOk \in BOOLEAN, stray \in StrayValues, fault \in BOOLEAN :
    /\ fault => (copyOk /\ ScaleReadsOutside(srcW, srcH)
                   /\ ~(srcW >= CANVAS_WIDTH /\ srcH >= CANVAS_HEIGHT))
    /\ IF fault
       THEN /\ decPc' = "crashed"
            /\ UNCHANGED <<rgb565Buffer, scaleRun>>
       ELSE LET s == scaleToFit(rgb565Buffer, srcW, srcH, copyOk, stray)
            IN /\ rgb565Buffer' = s.buffer
               /\ scaleRun' = s.run
               /\ decPc' = next

\* decodeJPG: if (w < 1200 || h < 1600) scaleToFit(jpgRgb565Buffer, w, h)
DecodeJPG412 ==
  /\ decPc = "jpg412"
  /\ IF data.w < CANVAS_WIDTH \/ data.h < CANVAS_HEIGHT
     THEN ScaleCall(data.w, data.h, "dither")
     ELSE /\ decPc' = "dither"
          /\ UNCHANGED <<rgb565Buffer, scaleRun>>
  /\ UNCHANGED <<data, decoder, result, heap, dithOnly>>
  /\ UNCHANGED <<bootVars, sdVars, dispVars, palVars, rendVars>>

\* decodePNG (RAM): ps_malloc of the canvas, memset to white, new PNG()
DecodePNG533 ==
  /\ decPc = "png533"
  /\ \E ok \in BOOLEAN :
       IF ok
       THEN /\ rgb565Buffer' = WhiteCanvas
            /\ heap' = heap \cup {"canvas", "png"}
            /\ decPc' = "png542"
            /\ UNCHANGED result
       ELSE /\ ReturnNull
            /\ UNCHANGED <<rgb565Buffer, heap>>
  /\ UNCHANGED <<data, decoder, scaleRun, dithOnly>>
  /\ UNCHANGED <<bootVars, sdVars, dispVars, palVars, rendVars>>

\* decodePNG: png->openRAM; on failure free(pngRgb565Buffer), delete png
DecodePNG542 ==
  /\ decPc = "png542"
  /\ IF data.lib # "badHeader"
     THEN /\ decPc' = "png553"
          /\ UNCHANGED <<result, heap>>
     ELSE /\ heap' = heap \ {"canvas", "png"}
          /\ ReturnNull
  /\ UNCHANGED <<data, decoder, scaleRun, dithVars>>
  /\ UNCHANGED <<bootVars, sdVars, dispVars, palVars, rendVars>>

\* decodePNG: png->decode; on failure the canvas is freed and the pointer reset
DecodePNG553 ==
  /\ decPc = "png553"
  /\ IF data.lib = "ok"
     THEN /\ rgb565Buffer' = pngDecode(rgb565Buffer, data.w, data.h)
          /\ decPc' = "png564"
          /\ UNCHANGED <<result, heap>>
     ELSE /\ heap' = heap \ {"canvas", "png"}
          /\ rgb565Buffer' = NullBuffer
          /\ ReturnNull
  /\ UNCHANGED <<data, decoder, scaleRun, dithOnly>>
  /\ UNCHANGED <<bootVars, sdVars, dispVars, palVars, rendVars>>

\* decodePNG: finalW, finalH clamped to the panel; scaleToFit if either is
\* below the panel's
DecodePNG564 ==
  /\ decPc = "png564"
  /\ LET finalW == IF data.w > CANVAS_WIDTH THEN CANVAS_WIDTH ELSE data.w
         finalH == IF data.h > CANVAS_HEIGHT THEN CANVAS_HEIGHT ELSE data.h
     IN IF finalW < CANVAS_WIDTH \/ finalH < CANVAS_HEIGHT
        THEN ScaleCall(finalW, finalH, "dither")
        ELSE /\ decPc' = "dither"
             /\ UNCHANGED <<rgb565Buffer, scaleRun>>
  /\ UNCHANGED <<data, decoder, result, heap, dithOnly>>
  /\ UNCHANGED <<bootVars, sdVars, dispVars, palVars, rendVars>>

\* decodeBMP: size check, header copy, 'B' 'M' check
DecodeBMP583 ==
  /\ decPc = "bmp583"
  /\ IF data.size < 54 \/ DataByte(data, 0) # 66 \/ DataByte(data, 1) # 77
     THEN ReturnNull
     ELSE decPc' = "bmp610" /\ UNCHANGED result
  /\ UNCHANGED <<data, decoder, scaleRun, heap>>
  /\ UNCHANGED <<bootVars, sdVars, dispVars, palVars, dithVars, rendVars>>

\* decodeBMP: the 8-bit branch copies the indices into pixelBuffer, which is
\* neither used nor freed; its ps_malloc is not checked
DecodeBMP610 ==
  /\ decPc = "bmp610"
  /\ LET hdr == BmpHeader(data)
     IN IF hdr.bitsPerPixel = 8 /\ hdr.compression = 0
        THEN \E ok \in BOOLEAN :
               IF ok
               THEN heap' = heap \cup {"pixelBuffer"} /\ decPc' = "bmp640"
               ELSE heap' = heap /\ decPc' = "crashed"
        ELSE heap' = heap /\ decPc' = "bmp640"
  /\ UNCHANGED <<data, decoder, result, scaleRun>>
  /\ UNCHANGED <<bootVars, sdVars, dispVars, palVars, dithVars, rendVars>>

\* decodeBMP: the 24-bit branch allocates the canvas, fills it white and
\* copies the pixels; every other depth is unsupported
DecodeBMP640 ==
  /\ decPc = "bmp640"
  /\ LET hdr == BmpHeader(data)
     IN IF hdr.bitsPerPixel = 24
        THEN \E ok \in BOOLEAN :
               IF ok
               THEN /\ rgb565Buffer' = BmpFill(WhiteCanvas, data, hdr)
                    /\ heap' = heap \cup {"canvas"}
                    /\ decPc' = "dither"
                    /\ UNCHANGED result
               ELSE /\ ReturnNull
                    /\ UNCHANGED <<rgb565Buffer, heap>>
        ELSE /\ ReturnNull
             /\ UNCHANGED <<rgb565Buffer, heap>>
  /\ UNCHANGED <<data, decoder, scaleRun, dithOnly>>
  /\ UNCHANGED <<bootVars, sdVars, dispVars, palVars, rendVars>>

\* auto bitmaps = ditherImage(buffer, 1200, 1600) of the three decoders
DecodeDither ==
  /\ decPc = "dither"
  /\ DitherStart \/ DitherPixel

\* the decoder frees the canvas (decodePNG also resets its pointer and deletes
\* the PNG state) and returns the bitmaps, or nullptr if ditherImage gave none
DecodeReturn ==
  /\ decPc = "dither"
  /\ dithPc \in {"done", "failed"}
  /\ heap' = heap \ {"canvas", "png"}
  /\ rgb565Buffer' = IF decoder = "png" THEN NullBuffer ELSE rgb565Buffer
  /\ result' = IF dithPc = "done" THEN "bitmaps" ELSE "null"
  /\ decPc' = "returned"
  /\ UNCHANGED <<data, decoder, scaleRun, dithOnly>>
  /\ UNCHANGED <<bootVars, sdVars, dispVars, palVars, rendVars>>

DecodeInit ==
  DecInit /\ DispInit /\ SdParked /\ BootParked /\ PalParked /\ DithParked /\ RendParked
DecodeNext ==
  \/ ProcessImageData
  \/ DecodeJPG391 \/ DecodeJPG402 \/ DecodeJPG412
  \/ DecodePNG533 \/ DecodePNG542 \/ DecodePNG553 \/ DecodePNG564
  \/ DecodeBMP583 \/ DecodeBMP610 \/ DecodeBMP640
  \/ DecodeDither \/ DecodeReturn
SpecDecode == DecodeInit /\ [][DecodeNext]_vars

(* ------------------------------------------------------------------ *)
(* Dispatcher and decoder claims                                       *)
(* ------------------------------------------------------------------ *)
Dispatched == decPc # "idle"
JpegMagic == data.size >= 4 /\ data.head[1] = 255 /\ data.head[2] = 216
PngMagic == data.size >= 4 /\ data.head = <<137, 80, 78, 71>>
BmpMagic == data.size >= 4 /\ data.head[1] = 66 /\ data.head[2] = 77

\* C4: processImageData selects the JPEG decoder iff the buffer starts with
\* 0xFF 0xD8, otherwise the PNG decoder iff it starts with 0x89 'P' 'N' 'G',
\* otherwise the BMP decoder iff it starts with 'B' 'M'; for every other
\* buffer, and every buffer shorter than 4 bytes, it returns failure with no
\* decoder invoked and no side effect (nothing allocated, no canvas, no
\* rescale, quantizer and display untouched).
C4_DispatchByMagic ==
  Dispatched =>
    /\ (decoder = "jpg") <=> JpegMagic
    /\ (decoder = "png") <=> (~JpegMagic /\ PngMagic)
    /\ (decoder = "bmp") <=> (~JpegMagic /\ ~PngMagic /\ BmpMagic)
    /\ ~(JpegMagic \/ PngMagic \/ BmpMagic) =>
         /\ decoder = "none"
         /\ result = "null"
         /\ decPc = "returned"
         /\ heap = {}
         /\ ~scaleRun.called
         /\ DithParked
         /\ DispInit

\* a four-byte buffer that matches the PNG magic in its first three bytes only
\* was turned away without a decoder
C4_Witness ==
  /\ decPc = "returned"
  /\ decoder = "none"
  /\ data.size >= 4
  /\ SubSeq(data.head, 1, 3) = <<137, 80, 78>>
  /\ data.head[4] # 71

\* the quantizer has been invoked by a decoder
QuantizerInvoked == decoder # "none" /\ dithPc # "idle"

\* C9: for each of the three decoders, whenever the source's true width is
\* below the panel width or its true height below the panel height,
\* scaleToFit has run on the canvas by the time ditherImage is invoked.
C9_RescaleBeforeQuantize ==
  (QuantizerInvoked /\ (data.w < CANVAS_WIDTH \/ data.h < CANVAS_HEIGHT))
    => scaleRun.called

\* C10: a source wider or taller than the panel is never down-sampled: on the
\* way to the quantizer no scale factor below 1 has been applied, and canvas
\* pixel (x, y) holds source pixel (x, y) of the top-left region.
C10_OversizeCroppedOnly ==
  (QuantizerInvoked /\ decPc = "dither"
     /\ (data.w > CANVAS_WIDTH \/ data.h > CANVAS_HEIGHT))
    => /\ (scaleRun.called /\ scaleRun.copied) => ~FltLess(scaleRun.scale, FltOne)
       /\ \A x \in 0..(Min(data.w, CANVAS_WIDTH) - 1),
             y \in 0..(Min(data.h, CANVAS_HEIGHT) - 1) :
            rgb565Buffer[(y * CANVAS_WIDTH) + x] = Src565(x, y)

(* ------------------------------------------------------------------ *)
(* scaleToFit on its own                                               *)
(* ------------------------------------------------------------------ *)
\* the canvas a decoder leaves for a w x h source no larger than the panel:
\* the source in the top-left corner of the white canvas
DecodedCanvas(w, h) ==
  [i \in 0..(CANVAS_WIDTH * CANVAS_HEIGHT - 1) |->
     IF i % CANVAS_WIDTH < w /\ i \div CANVAS_WIDTH < h
     THEN Src565(i % CANVAS_WIDTH, i \div CANVAS_WIDTH)
     ELSE RGB565_WHITE]

\* every source size from 1 x 1 up to the panel's
ScaleSamples ==
  {[size |-> 0, head |-> <<>>, w |-> sw, h |-> sh, bpp |-> 0, comp |-> 0,
    off |-> 0, lib |-> "ok"] :
     sw \in 1..CANVAS_WIDTH, sh \in 1..CANVAS_HEIGHT}

ScaleInit ==
  /\ DispInit /\ SdParked /\ BootParked /\ PalParked /\ RendParked
  /\ data \in ScaleSamples
  /\ rgb565Buffer = DecodedCanvas(data.w, data.h)
  /\ dithPc = "idle" /\ dithX = 0 /\ dithY = 0
  /\ errCurr = NullBuffer /\ errNext = NullBuffer
  /\ planes = NullBuffer /\ chosen = NullBuffer
  /\ decPc = "scale"
  /\ decoder = "none"
  /\ result = "pending"
  /\ scaleRun = NoScale
  /\ heap = {"canvas"}

\* scaleToFit(buffer, srcW, srcH)
ScaleToFit ==
  /\ decPc = "scale"
  /\ ScaleCall(data.w, data.h, "scaled")
  /\ UNCHANGED <<data, decoder, result, heap, dithOnly>>
  /\ UNCHANGED <<bootVars, sdVars, dispVars, palVars, rendVars>>

ScaleNext == ScaleToFit
SpecScale == ScaleInit /\ [][ScaleNext]_vars

\* scaleToFit has returned after its nearest-neighbour loop
Rescaled == decPc = "scaled" /\ scaleRun.called /\ scaleRun.copied

\* C11: after scaleToFit on a srcW x srcH source no larger than the panel (and
\* not of panel size in both axes) the canvas still has the panel's
\* dimensions, every pixel outside [offsetX, offsetX+scaledW) x
\* [offsetY, offsetY+scaledH) is white, and pixel (offsetX+dx, offsetY+dy)
\* inside it is the pre-scale source pixel (dx*srcW/scaledW, dy*srcH/scaledH),
\* integer division.
C11_ScaledCanvas ==
  Rescaled =>
    /\ DOMAIN rgb565Buffer = 0..(CANVAS_WIDTH * CANVAS_HEIGHT - 1)
    /\ \A x \in 0..(CANVAS_WIDTH - 1), y \in 0..(CANVAS_HEIGHT - 1) :
         LET dx == x - scaleRun.offsetX
             dy == y - scaleRun.offsetY
         IN IF dx >= 0 /\ dx < scaleRun.scaledW /\ dy >= 0 /\ dy < scaleRun.scaledH
            THEN rgb565Buffer[(y * CANVAS_WIDTH) + x]
                   = Src565((dx * data.w) \div scaleRun.scaledW,
                            (dy * data.h) \div scaleRun.scaledH)
            ELSE rgb565Buffer[(y * CANVAS_WIDTH) + x] = RGB565_WHITE

\* a source that was enlarged and centred with a margin on both sides
C11_Witness ==
  /\ Rescaled
  /\ scaleRun.scaledW > data.w
  /\ scaleRun.offsetX > 0
  /\ rgb565Buffer[0] = RGB565_WHITE
  /\ rgb565Buffer[scaleRun.offsetX] = Src565(0, 0)

(* ------------------------------------------------------------------ *)
(* BMP decoder claims                                                  *)
(* ------------------------------------------------------------------ *)
\* decodeBMP has filled the canvas of an uncompressed 24-bit BMP no larger
\* than the panel and not yet freed it
BmpDecoded ==
  /\ decoder = "bmp"
  /\ decPc = "dither"
  /\ data.bpp = 24
  /\ data.comp = 0
  /\ data.w <= CANVAS_WIDTH
  /\ data.h <= CANVAS_HEIGHT

\* C12: for an uncompressed 24-bit BMP of W x H pixels no larger than the
\* panel, canvas pixel (x, y) with x < W, y < H is made of the three bytes at
\* file offset dataOffset + (H-1-y)*rowSize + 3*x read as Blue, Green, Red,
\* rowSize = ((W*24+31)/32)*4; every other canvas pixel is white.
C12_BmpPixelLayout ==
  BmpDecoded =>
    \A x \in 0..(CANVAS_WIDTH - 1), y \in 0..(CANVAS_HEIGHT - 1) :
      LET rowSize == (((data.w * 24) + 31) \div 32) * 4
          at == data.off + (((data.h - 1) - y) * rowSize) + (3 * x)
          blue == DataByte(data, at)
          green == DataByte(data, at + 1)
          red == DataByte(data, at + 2)
      IN IF x < data.w /\ y < data.h
         THEN rgb565Buffer[(y * CANVAS_WIDTH) + x]
                = ((red \div 8) * 2048) + ((green \div 4) * 32) + (blue \div 8)
         ELSE rgb565Buffer[(y * CANVAS_WIDTH) + x] = RGB565_WHITE

\* a decoded BMP with padded rows (5 pixels: 15 bytes in rows of 16) that is
\* lower than the panel: its top-left pixel is the image's and the pixel right
\* of its first row is white
C12_Witness ==
  /\ BmpDecoded
  /\ data.w = 5
  /\ data.h < CANVAS_HEIGHT
  /\ rgb565Buffer[0] = Src565(0, 0)
  /\ rgb565Buffer[data.w] = RGB565_WHITE

\* C13: decodeBMP fails - returns no bitplanes and never runs the quantizer -
\* for every BMP whose (bits-per-pixel, compression) pair is not (24, 0),
\* including 24-bit with non-zero compression and 8-bit uncompressed.
C13_UnsupportedBmpFails ==
  (decoder = "bmp" /\ ~(data.bpp = 24 /\ data.comp = 0))
    => (dithPc = "idle" /\ result # "bitmaps")

(* ------------------------------------------------------------------ *)
(* The render pass: ImageScreen::render                                *)
(* ------------------------------------------------------------------ *)
\* HTTP status codes render distinguishes
HTTP_CODE_OK == 200
HTTP_CODE_NOT_MODIFIED == 304

\* loadFromLittleFS: the first of /local_image.bmp, .jpg, .jpeg, .png that
\* exists, "" if none does
LocalName(exts) ==
  IF ".bmp" \in exts THEN ".bmp"
  ELSE IF ".jpg" \in exts THEN ".jpg"
  ELSE IF ".jpeg" \in exts THEN ".jpeg"
  ELSE IF ".png" \in exts THEN ".png"
  ELSE ""

\* sample images of half the panel's size, one per decoder
SmallJpeg(l) ==
  [size |-> 64, head |-> <<255, 216, 255, 224>>, w |-> CANVAS_WIDTH \div 2,
   h |-> CANVAS_HEIGHT \div 2, bpp |-> 0, comp |-> 0, off |-> 0, lib |-> l]
SmallPng ==
  [size |-> 64, head |-> <<137, 80, 78, 71>>, w |-> 5, h |-> CANVAS_HEIGHT,
   bpp |-> 0, comp |-> 0, off |-> 0, lib |-> "ok"]
\* four bytes that are no image
Unknown ==
  [size |-> 4, head |-> <<0, 80, 78, 71>>, w |-> 0, h |-> 0, bpp |-> 0,
   comp |-> 0, off |-> 0, lib |-> "badHeader"]

\* what LittleFS holds when render is called
LocalSamples ==
  {NoFile,
   [exts |-> {".jpg"}, content |-> SmallJpeg("ok")],
   [exts |-> {".jpg"}, content |-> SmallJpeg("badBody")],
   [exts |-> {".jpg"}, content |-> Unknown],
   [exts |-> {".jpeg", ".png"}, content |-> SmallJpeg("ok")],
   [exts |-> {".png"}, content |-> SmallPng],
   [exts |-> {".bmp"}, content |-> BmpFile(CANVAS_WIDTH \div 2, CANVAS_HEIGHT \div 2, 24, 0)],
   [exts |-> {".bmp"}, content |-> BmpFile(CANVAS_WIDTH \div 2, CANVAS_HEIGHT \div 2, 8, 0)]}

\* what the image server answers
HttpSamples ==
  {[httpCode |-> HTTP_CODE_NOT_MODIFIED, content |-> NoData],
   [httpCode |-> 404, content |-> NoData],
   [httpCode |-> HTTP_CODE_OK, content |-> SmallPng],
   [httpCode |-> HTTP_CODE_OK, content |-> Unknown]}

\* the state of the decoder and quantizer variables before a call of
\* processImageData or decodePNG on the buffer d
EnterDecoder(d, pc, dec) ==
  /\ data' = d
  /\ decPc' = pc
  /\ decoder' = dec
  /\ result' = "pending"
  /\ scaleRun' = NoScale
  /\ rgb565Buffer' = NullBuffer
  /\ dithPc' = "idle"
  /\ dithX' = 0
  /\ dithY' = 0
  /\ errCurr' = NullBuffer
  /\ errNext' = NullBuffer
  /\ planes' = NullBuffer
  /\ chosen' = NullBuffer

\* a stage of render that yields no bitmaps and leaves the decoder alone
NoBitmaps ==
  /\ result' = "null"
  /\ UNCHANGED <<data, decPc, decoder, scaleRun, dithVars>>

\* LittleFS.begin(true); loadFromLittleFS() up to the decoder call: the file
\* is chosen and opened; a .png is streamed by decodePNG(file), any other file
\* is read into fileBuffer and handed to processImageData
Render797Load ==
  /\ renderPc = "r797"
  /\ \E openOk \in BOOLEAN, bufferOk \in BOOLEAN :
       LET name == LocalName(localFile.exts)
       IN IF name = "" \/ ~openOk
          THEN /\ NoBitmaps
               /\ renderPc' = "r809"
               /\ UNCHANGED heap
          ELSE IF name = ".png"
          THEN /\ EnterDecoder(localFile.content, "png533", "png")
               /\ renderPc' = "decode"
               /\ UNCHANGED heap
          ELSE IF ~bufferOk
          THEN /\ NoBitmaps
               /\ renderPc' = "r809"
               /\ UNCHANGED heap
          ELSE /\ EnterDecoder(localFile.content, "idle", "none")
               /\ renderPc' = "decode"
               /\ heap' = heap \cup {"fileBuffer"}
  /\ UNCHANGED <<localFile, httpResult>>
  /\ UNCHANGED <<bootVars, sdVars, dispVars, palVars>>

\* processImageData / decodePNG running inside render
RenderDecode ==
  /\ renderPc = "decode"
  /\ DecodeNext

\* the decoder has returned: loadFromLittleFS frees fileBuffer; with bitmaps
\* render goes on to draw them, without it falls back to the download (after
\* a local file) or returns (after a download)
RenderDecoded ==
  /\ renderPc = "decode"
  /\ decPc = "returned"
  /\ heap' = heap \ {"fileBuffer"}
  /\ renderPc' = IF result = "bitmaps" THEN "r801"
                 ELSE IF "downloadData" \in heap THEN "returned"
                 ELSE "r809"
  /\ UNCHANGED <<localFile, httpResult>>
  /\ UNCHANGED <<data, decPc, decoder, result, scaleRun>>
  /\ UNCHANGED <<bootVars, sdVars, dispVars, palVars, dithVars>>

\* the download after a "not modified" answer going on to display()
Render809_RefreshOnNotModified ==
  /\ renderPc = "r809"
  /\ IF httpResult.httpCode = HTTP_CODE_OK
     THEN /\ EnterDecoder(httpResult.content, "idle", "none")
          /\ heap' = heap \cup {"downloadData"}
          /\ renderPc' = "decode"
     ELSE /\ NoBitmaps
          /\ renderPc' = IF httpResult.httpCode = HTTP_CODE_NOT_MODIFIED
                         THEN "r804" ELSE "returned"
          /\ UNCHANGED heap
  /\ UNCHANGED <<localFile, httpResult>>
  /\ UNCHANGED <<bootVars, sdVars, dispVars, palVars>>

\* auto downloadResult = download(): 304 and every code other than 200 end the
\* pass; the body of a 200 is handed to processImageData
Render809 ==
  /\ renderPc = "r809"
  /\ IF httpResult.httpCode = HTTP_CODE_OK
     THEN /\ EnterDecoder(httpResult.content, "idle", "none")
          /\ heap' = heap \cup {"downloadData"}
          /\ renderPc' = "decode"
     ELSE /\ NoBitmaps
          /\ renderPc' = "returned"
          /\ UNCHANGED heap
  /\ UNCHANGED <<localFile, httpResult>>
  /\ UNCHANGED <<bootVars, sdVars, dispVars, palVars>>

\* renderBitmaps(*bitmaps)
Render801 ==
  /\ renderPc = "r801"
  /\ frameBuffer' =
       renderBitmaps(frameBuffer, rotation, planes, CANVAS_WIDTH, CANVAS_HEIGHT)
  /\ renderPc' = "r802"
  /\ UNCHANGED <<localFile, httpResult>>
  /\ UNCHANGED <<initialized, rotation, cs, dispPc, row, busLog, refreshes, draws>>
  /\ UNCHANGED notRend

\* displayBatteryStatus(); displayWifiInfo(): a white box with black text in
\* the bottom right corner and, when WiFi is connected, in the bottom left
\* one.  The font metrics are the font library's; each box is represented by
\* its corner pixel.
Render802 ==
  /\ renderPc = "r802"
  /\ \E wifi \in BOOLEAN :
       LET w == DisplayWidth(rotation)
           h == DisplayHeight(rotation)
           fb1 == drawPixel(frameBuffer, rotation, w - 1, h - 1, BLACK)
       IN frameBuffer' =
            IF wifi THEN drawPixel(fb1, rotation, 0, h - 1, BLACK) ELSE fb1
  /\ renderPc' = "r804"
  /\ UNCHANGED <<localFile, httpResult>>
  /\ UNCHANGED <<initialized, rotation, cs, dispPc, row, busLog, refreshes, draws>>
  /\ UNCHANGED notRend

\* display.display() is entered
RenderDisplay ==
  /\ renderPc = "r804"
  /\ refreshes = 0
  /\ Display

\* sendFrameBufferToDisplay and epdDisplay inside display.display()
RenderTransport ==
  /\ renderPc = "r804"
  /\ \/ Send102 \/ Send120 \/ Send121 \/ Send122 \/ Send123 \/ Send127
     \/ Send130 \/ Send131 \/ Send132 \/ Send136 \/ EpdDisplay

\* display.hibernate()
RenderHibernate ==
  /\ renderPc = "r804"
  /\ HibernateBegin \/ HibernateEnd

\* render returns: the bitmaps and the download result go out of scope
RenderReturn ==
  /\ renderPc = "r804"
  /\ dispPc = "hibernated"
  /\ renderPc' = "returned"
  /\ planes' = NullBuffer
  /\ heap' = heap \ {"downloadData"}
  /\ UNCHANGED <<localFile, httpResult>>
  /\ UNCHANGED <<data, decPc, decoder, result, scaleRun>>
  /\ UNCHANGED <<rgb565Buffer, dithPc, dithX, dithY, errCurr, errNext, chosen>>
  /\ UNCHANGED <<bootVars, sdVars, dispVars, palVars>>

RenderInit ==
  /\ DispInit /\ SdParked /\ BootParked /\ PalParked /\ DithParked /\ DecParked
  /\ renderPc = "r791"
  /\ localFile \in LocalSamples
  /\ httpResult \in HttpSamples

RenderNext ==
  \/ Render791 \/ Render792 \/ Render797Load \/ RenderDecode \/ RenderDecoded
  \/ Render809 \/ Render801 \/ Render802
  \/ RenderDisplay \/ RenderTransport \/ RenderHibernate \/ RenderReturn
SpecRender == RenderInit /\ [][RenderNext]_vars


(* ------------------------------------------------------------------ *)
(* Render pass claims                                                  *)
(* ------------------------------------------------------------------ *)
\* scaleToFit was entered for a source smaller than the panel and its
\* temporary copy could not be allocated
CopyFailed ==
  /\ scaleRun.called
  /\ ~scaleRun.copied
  /\ ~(scaleRun.srcW >= CANVAS_WIDTH /\ scaleRun.srcH >= CANVAS_HEIGHT)
\* DisplayAdapter::init has run and could not allocate the packed framebuffer
FrameBufferFailed == renderPc # "r791" /\ renderPc # "idle" /\ IsNull(frameBuffer)
\* ditherImage could not allocate the bitplanes or the error rows
QuantizerAllocFailed == dithPc \in {"failed", "crashed"}
AllocationFailed == CopyFailed \/ FrameBufferFailed \/ QuantizerAllocFailed
\* the stages of render that follow the allocation of the framebuffer
PastInit ==
  renderPc \in {"decode", "r809", "r801", "r802", "r804"} /\ decPc # "idle"
PanelTouched == dispPc # "idle" \/ refreshes > 0

\* C14: once an allocation of a working buffer has failed in a render pass
\* (rescale copy, bitplanes, error rows, packed framebuffer), no later stage
\* of the pipeline runs and the panel is not refreshed.
C14_AllocationFailureAborts ==
  /\ CopyFailed => dithPc = "idle" /\ ~PanelTouched
  /\ FrameBufferFailed => ~PastInit /\ ~PanelTouched
  /\ QuantizerAllocFailed => ~PanelTouched


\* C15: in ImageScreen::render, as long as no bitplane set has been produced
\* (unknown format, rejected BMP, decoder error, download not OK), neither the
\* framebuffer transfer nor the panel refresh is executed: display.display()
\* is not entered, nothing is written to the bus and no refresh is triggered.
C15_NoBitmapsNoRefresh ==
  (renderPc # "idle" /\ result # "bitmaps") =>
     /\ dispPc = "idle"
     /\ busLog = <<>>
     /\ refreshes = 0
\* render has returned after the downloaded data was handed to the decoder
\* and yielded no bitmaps
C15_Witness ==
  /\ renderPc = "returned"
  /\ result = "null"
  /\ decPc = "returned"
  /\ httpResult.httpCode = HTTP_CODE_OK
  /\ refreshes = 0


\* the large buffers that are allocated in the current state
ResidentBuffers ==
  {b \in {"source", "canvas", "bitplanes", "framebuffer"} :
     \/ b = "source" /\ heap \cap {"fileBuffer", "downloadData"} # {}
     \/ b = "canvas" /\ "canvas" \in heap
     \/ b = "bitplanes" /\ planes # NullBuffer
     \/ b = "framebuffer" /\ ~IsNull(frameBuffer)}

\* C17: at every point of a render pass at most two of the large buffers
\* (source data, canvas, bitplane set, packed framebuffer) are resident; and
\* the bitplanes are gone when the transfer to the panel starts.
C17_AtMostTwoBuffers ==
  /\ Cardinality(ResidentBuffers) <= 2
  /\ dispPc # "idle" => planes = NullBuffer

\* C18: when a JPEG is loaded from LittleFS, the buffer holding the raw file
\* is no longer allocated once ditherImage has begun.
C18_SourceFreedBeforeDither ==
  (decoder = "jpg" /\ "downloadData" \notin heap /\ dithPc # "idle")
     => "fileBuffer" \notin heap


(* ------------------------------------------------------------------ *)
(* Transport with failing bus writes                                   *)
(* ------------------------------------------------------------------ *)
\* the number of bus writes that fail during one transfer
MaxFaults == 1

\* the failed writes recorded in the bus log
Faults == {i \in 1..Len(busLog) : busLog[i].op = "fault"}
Faulted == Faults # {}

\* a writeEpdCommand or writeEpdData of sendFrameBufferToDisplay fails on the
\* bus (the controller does not take the bytes).  Both functions return void
\* and sendFrameBufferToDisplay tests nothing after them, so the failure
\* changes neither the position in the function nor any of its variables.
SendFault ==
  /\ dispPc \in {"s122", "s123", "s131", "s132"}
  /\ Cardinality(Faults) < MaxFaults
  /\ busLog' = Append(busLog, BusEvent("fault", row, 0, <<>>, cs))
  /\ UNCHANGED <<frameBuffer, initialized, rotation, cs, dispPc, row,
                 refreshes, draws>>
  /\ UNCHANGED notDisp

FaultInit == TransportInit
FaultNext ==
  \/ DisplayInit \/ FillScreen \/ Display
  \/ Send102 \/ Send120 \/ Send121 \/ Send122 \/ Send123 \/ Send127
  \/ Send130 \/ Send131 \/ Send132 \/ Send136
  \/ SendFault \/ EpdDisplay
SpecFault == FaultInit /\ [][FaultNext]_vars

\* C16: once a bus write has failed during the transport, the pass is
\* aborted: nothing more is written to the bus (no remaining row, no retry)
\* and the panel refresh is not triggered.
C16_TransportFailureAborts ==
  [][Faulted => (busLog' = busLog /\ refreshes' = refreshes)]_vars


(* ------------------------------------------------------------------ *)
(* SD card loader (SDCardManager.cpp)                                  *)
(* ------------------------------------------------------------------ *)
\* the number of files in the root of the SD card
MaxFiles == 2

SD_PREFERRED_NAMES ==
  <<"/image.jpg", "/image.jpeg", "/image.png", "/image.bmp",
    "/IMAGE.JPG", "/IMAGE.JPEG", "/IMAGE.PNG", "/IMAGE.BMP">>

\* the file names the sampled cards are made of, with their lower-cased
\* extension.  They are lower-case names, so an upper-case preferred name
\* matches nothing that the lower-case one has not matched before it.
CardNames ==
  {"/image.bmp", "/image.jpg", "/image.jpeg", "/image.png", "/photo.png",
   "/notes.txt"}
ExtOf(path) ==
  CASE path \in {"/image.bmp", "/IMAGE.BMP"} -> ".bmp"
    [] path \in {"/image.jpg", "/IMAGE.JPG"} -> ".jpg"
    [] path \in {"/image.jpeg", "/IMAGE.JPEG"} -> ".jpeg"
    [] path \in {"/image.png", "/IMAGE.PNG", "/photo.png"} -> ".png"
    [] OTHER -> ".txt"

\* the root directories sampled: up to MaxFiles different files, in the
\* order openNextFile yields them
CardSamples ==
  UNION {{f \in [1..n -> CardNames] : \A i, j \in 1..n : f[i] = f[j] => i = j}
         : n \in 0..MaxFiles}

\* SD.exists(path)
SdExists(card, path) == \E i \in 1..Len(card) : card[i] = path

isImageExtension(name) == ExtOf(name) \in {".jpg", ".jpeg", ".png", ".bmp"}

\* the first image file of the root directory, "" if there is none
findAnyImageOnSD(card) ==
  LET hits == {i \in 1..Len(card) : isImageExtension(card[i])}
  IN IF hits = {} THEN ""
     ELSE card[CHOOSE i \in hits : \A j \in hits : i <= j]

lfsDestForExtension(sdPath) ==
  CASE ExtOf(sdPath) = ".bmp" -> "/local_image.bmp"
    [] ExtOf(sdPath) = ".jpg" -> "/local_image.jpg"
    [] ExtOf(sdPath) = ".jpeg" -> "/local_image.jpeg"
    [] ExtOf(sdPath) = ".png" -> "/local_image.png"
    [] OTHER -> "/local_image.bin"

\* Phase 6: the first preferred name that exists, else the first image of
\* the directory scan
FindImage(card) ==
  LET hits == {i \in 1..Len(SD_PREFERRED_NAMES) :
                 SdExists(card, SD_PREFERRED_NAMES[i])}
  IN IF hits # {}
     THEN SD_PREFERRED_NAMES[CHOOSE i \in hits : \A j \in hits : i <= j]
     ELSE findAnyImageOnSD(card)

notSd == <<palVars, dithVars, rendVars, decVars, bootVars>>
dispNotCs == <<frameBuffer, initialized, rotation, dispPc, row, busLog,
               refreshes, draws>>

\* a return of copyImageFromSDToLittleFS that leaves sdSPI.end() out
SdReturn_NoRelease(calls, value) ==
  /\ sdLog' = sdLog \o SelectSeq(calls, LAMBDA c : c # "sdSPI.end")
  /\ sdResult' = value
  /\ sdPc' = "returned"

\* a return of copyImageFromSDToLittleFS after the calls given
SdReturn(calls, value) ==
  /\ sdLog' = sdLog \o calls
  /\ sdResult' = value
  /\ sdPc' = "returned"

\* Phase 2: pinMode(SPI_CS0, OUTPUT); digitalWrite(SPI_CS0, HIGH)
SdCopy235 ==
  /\ sdPc = "sd235"
  /\ cs' = [cs EXCEPT ![0] = GPIO_HIGH]
  /\ sdLog' = Append(sdLog, "cs0High")
  /\ sdPc' = "sd237"
  /\ UNCHANGED <<sdCard, foundPathStr, sdResult>>
  /\ UNCHANGED <<dispNotCs, notSd>>

\* pinMode(SPI_CS1, OUTPUT); digitalWrite(SPI_CS1, HIGH)
SdCopy237 ==
  /\ sdPc = "sd237"
  /\ cs' = [cs EXCEPT ![1] = GPIO_HIGH]
  /\ sdLog' = Append(sdLog, "cs1High")
  /\ sdPc' = "sd245"
  /\ UNCHANGED <<sdCard, foundPathStr, sdResult>>
  /\ UNCHANGED <<dispNotCs, notSd>>

\* Phase 3: sdSPI.begin(SPI_CLK, SPI_Data1, SPI_Data0, SD_CS)
SdCopy245 ==
  /\ sdPc = "sd245"
  /\ sdLog' = Append(sdLog, "sdSPI.begin")
  /\ sdPc' = "sd247"
  /\ UNCHANGED <<sdCard, foundPathStr, sdResult>>
  /\ UNCHANGED <<dispVars, notSd>>

\* if (!SD.begin(SD_CS, sdSPI, 4000000)) { SD.end(); sdSPI.end(); return false; }
SdCopy247 ==
  /\ sdPc = "sd247"
  /\ \E ok \in BOOLEAN :
       IF ok
       THEN /\ sdLog' = Append(sdLog, "SD.begin")
            /\ sdPc' = "sd262"
            /\ UNCHANGED sdResult
       ELSE SdReturn(<<"SD.begin failed", "SD.end", "sdSPI.end">>, "false")
  /\ UNCHANGED <<sdCard, foundPathStr>>
  /\ UNCHANGED <<dispVars, notSd>>

\* Phase 4: if (cardType == CARD_NONE) { SD.end(); sdSPI.end(); return false; }
SdCopy262 ==
  /\ sdPc = "sd262"
  /\ \E cardNone \in BOOLEAN :
       IF cardNone
       THEN SdReturn(<<"SD.end", "sdSPI.end">>, "false")
       ELSE /\ sdPc' = "sd289"
            /\ UNCHANGED <<sdLog, sdResult>>
  /\ UNCHANGED <<sdCard, foundPathStr>>
  /\ UNCHANGED <<dispVars, notSd>>

\* Phase 6: the preferred names, then the directory scan; without a file
\* SD.end(); sdSPI.end(); return false
SdCopy289 ==
  /\ sdPc = "sd289"
  /\ foundPathStr' = FindImage(sdCard)
  /\ IF foundPathStr' = ""
     THEN SdReturn(<<"SD.end", "sdSPI.end">>, "false")
     ELSE /\ sdPc' = "sd317"
          /\ UNCHANGED <<sdLog, sdResult>>
  /\ UNCHANGED sdCard
  /\ UNCHANGED <<dispVars, notSd>>

\* Phase 7: if (!LittleFS.begin(true)) { SD.end(); sdSPI.end(); return false; }
SdCopy317 ==
  /\ sdPc = "sd317"
  /\ \E ok \in BOOLEAN :
       IF ok
       THEN /\ sdLog' = Append(sdLog, "LittleFS.begin")
            /\ sdPc' = "sd329"
            /\ UNCHANGED sdResult
       ELSE SdReturn(<<"LittleFS.begin failed", "SD.end", "sdSPI.end">>, "false")
  /\ UNCHANGED <<sdCard, foundPathStr>>
  /\ UNCHANGED <<dispVars, notSd>>

\* if (!checkLittleFSSpace(srcSize)) { LittleFS.end(); SD.end(); sdSPI.end();
\* return false; }
SdCopy329 ==
  /\ sdPc = "sd329"
  /\ \E room \in BOOLEAN :
       IF room
       THEN /\ sdPc' = "sd336"
            /\ UNCHANGED <<sdLog, sdResult>>
       ELSE SdReturn(<<"LittleFS.end", "SD.end", "sdSPI.end">>, "false")
  /\ UNCHANGED <<sdCard, foundPathStr>>
  /\ UNCHANGED <<dispVars, notSd>>

\* Phases 8 to 10: removeOldLocalImages(); copyFile; LittleFS.end(); SD.end();
\* sdSPI.end(); return ok
SdCopy336 ==
  /\ sdPc = "sd336"
  /\ \E ok \in BOOLEAN :
       SdReturn(<<IF ok THEN "copyFile" ELSE "copyFile failed",
                  "LittleFS.end", "SD.end", "sdSPI.end">>,
                IF ok THEN "true" ELSE "false")
  /\ UNCHANGED <<sdCard, foundPathStr>>
  /\ UNCHANGED <<dispVars, notSd>>

\* before the call: the display has not been initialised, the chip-select
\* pins are at whatever level the boot left them
SdCopyInit ==
  /\ frameBuffer = NullBuffer
  /\ initialized = FALSE
  /\ rotation = 0
  /\ cs \in [0..1 -> {GPIO_LOW, GPIO_HIGH}]
  /\ dispPc = "idle"
  /\ row = 0
  /\ busLog = <<>>
  /\ refreshes = 0
  /\ draws = 0
  /\ PalParked /\ DithParked /\ RendParked /\ DecParked /\ BootParked
  /\ sdPc = "sd235"
  /\ sdCard \in CardSamples
  /\ foundPathStr = ""
  /\ sdLog = <<>>
  /\ sdResult = "pending"

SdCopyNext ==
  \/ SdCopy235 \/ SdCopy237 \/ SdCopy245 \/ SdCopy247 \/ SdCopy262
  \/ SdCopy289 \/ SdCopy317 \/ SdCopy329 \/ SdCopy336
SpecSdCopy == SdCopyInit /\ [][SdCopyNext]_vars


(* ------------------------------------------------------------------ *)
(* SD card loader claims                                               *)
(* ------------------------------------------------------------------ *)
\* the positions in sdLog of a call
CallsOf(name) == {i \in 1..Len(sdLog) : sdLog[i] = name}
BusStarted == CallsOf("sdSPI.begin") # {}

\* C19: copyImageFromSDToLittleFS writes both display chip-selects HIGH
\* before sdSPI.begin (and they are HIGH from then on), and when it has
\* returned after the bus was started, SD.end() and then sdSPI.end() have
\* been called after every begin, preceded by LittleFS.end() if LittleFS was
\* mounted; sdSPI.end() is the last call.
C19_BusReleased ==
  /\ BusStarted =>
       /\ cs[0] = GPIO_HIGH /\ cs[1] = GPIO_HIGH
       /\ \A b \in CallsOf("sdSPI.begin") :
            /\ \E i \in CallsOf("cs0High") : i < b
            /\ \E i \in CallsOf("cs1High") : i < b
  /\ (sdPc = "returned" /\ BusStarted) =>
       /\ sdLog[Len(sdLog)] = "sdSPI.end"
       /\ sdLog[Len(sdLog) - 1] = "SD.end"
       /\ \A m \in CallsOf("LittleFS.begin") :
            \E e \in CallsOf("LittleFS.end") : m < e /\ e < Len(sdLog) - 1
       /\ Cardinality(CallsOf("sdSPI.end")) = 1
       /\ Cardinality(CallsOf("SD.end")) = 1
\* the call has returned after copyFile failed with LittleFS mounted
C19_Witness ==
  /\ sdPc = "returned"
  /\ sdResult = "false"
  /\ CallsOf("LittleFS.begin") # {}
  /\ CallsOf("copyFile failed") # {}
  /\ sdLog[Len(sdLog)] = "sdSPI.end"
  /\ cs[0] = GPIO_HIGH /\ cs[1] = GPIO_HIGH

\* the four names of the header comment, in its order
HeaderOrder == <<"/image.bmp", "/image.jpg", "/image.jpeg", "/image.png">>
Candidates == {i \in 1..Len(HeaderOrder) : SdExists(sdCard, HeaderOrder[i])}

\* C20: when several of the candidate files exist on the card, the file
\* chosen is the first existing one in the order /image.bmp, /image.jpg,
\* /image.jpeg, /image.png.
C20_PreferenceOrder ==
  (foundPathStr # "" /\ Cardinality(Candidates) >= 2) =>
     foundPathStr = HeaderOrder[CHOOSE i \in Candidates : \A j \in Candidates : i <= j]


(* ------------------------------------------------------------------ *)
(* Error diffusion claims                                              *)
(* ------------------------------------------------------------------ *)
\* the channel c of canvas pixel idx as ditherImage expands it
Expand565(idx, c) ==
  CASE c = "r" -> ((rgb565Buffer[idx] \div 2048) % 32) * 8
    [] c = "g" -> ((rgb565Buffer[idx] \div 32) % 64) * 4
    [] c = "b" -> (rgb565Buffer[idx] % 32) * 8
\* the quantization error of the pixel being visited, given the index chosen
QuantError(c, colorIdx) ==
  LET v == Expand565(dithY * CANVAS_WIDTH + dithX, c) + errCurr[c][dithX]
      clamped == IF v < 0 THEN 0 ELSE IF v > 255 THEN 255 ELSE v
  IN clamped - PaletteChannel(colorIdx, c)
\* (err * w) / 16 rounded toward zero
Share(err, w) ==
  IF err * w >= 0 THEN (err * w) \div 16 ELSE -((-(err * w)) \div 16)
\* the rows the claim expects after the pixel at (dithX, dithY)
ExpectedCurr(c, e) ==
  [i \in 0..(CANVAS_WIDTH - 1) |->
     errCurr[c][i] + (IF i = dithX + 1 THEN Share(e, 7) ELSE 0)]
ExpectedNext(c, e) ==
  [i \in 0..(CANVAS_WIDTH - 1) |->
     IF dithY + 1 >= CANVAS_HEIGHT THEN errNext[c][i]
     ELSE errNext[c][i]
          + (IF i + 1 = dithX THEN Share(e, 3) ELSE 0)
          + (IF i = dithX THEN Share(e, 5) ELSE 0)
          + (IF i = dithX + 1 THEN Share(e, 1) ELSE 0)]
DiffusedAsClaimed ==
  \A c \in Channels :
    LET e == QuantError(c, chosen'[dithY * CANVAS_WIDTH + dithX])
    IN IF dithX + 1 < CANVAS_WIDTH
       THEN /\ errCurr'[c] = ExpectedCurr(c, e)
            /\ errNext'[c] = ExpectedNext(c, e)
       ELSE \* end of the row: the next row becomes the current one
            /\ errCurr'[c] = ExpectedNext(c, e)
            /\ errNext'[c] = [i \in 0..(CANVAS_WIDTH - 1) |-> 0]

\* C22: each pixel step of ditherImage adds the quantization error of pixel
\* (x,y), per channel the clamped adjusted value minus the chosen palette
\* value, to exactly the existing neighbours (x+1,y), (x-1,y+1), (x,y+1),
\* (x+1,y+1) as (err*7)/16, (err*3)/16, (err*5)/16, (err*1)/16, truncating
\* toward zero; every other entry of the error rows keeps its value.
C22_ErrorDiffusion ==
  [][dithPc = "loop" => DiffusedAsClaimed]_vars
\* a negative error has been diffused to the right neighbour and to the row
\* below, away from the canvas borders
C22_Witness ==
  /\ dithPc = "loop"
  /\ dithX > 0 /\ dithX + 1 < CANVAS_WIDTH
  /\ dithY > 0 /\ dithY + 1 < CANVAS_HEIGHT
  /\ \E c \in Channels : errCurr[c][dithX] < 0 /\ errNext[c][dithX - 1] < 0


\* the palette index whose pixels a plane collects
IndexOfPlane(pl) ==
  CASE pl = "black" -> 0
    [] pl = "yellow" -> 2
    [] pl = "red" -> 3
    [] pl = "blue" -> 4
    [] pl = "green" -> 5
\* ceil(width / 8)
CeilBytes(width) == (width \div 8) + (IF width % 8 = 0 THEN 0 ELSE 1)
\* bit m (mask 1 << m) of byte k of plane pl is set
BitIsSet(pl, k, m) == (planes[pl][k] \div (2 ^ m)) % 2 = 1

\* C23: for every canvas pixel (x,y) whose chosen index is not White, the
\* bit with mask 1 << (7 - x mod 8) of byte (height-1-y)*ceil(width/8) + x/8
\* is set in that colour's plane, and no other bit is set for the pixel: in
\* each plane the bit of a pixel is set exactly when the pixel was given the
\* plane's index, and the plane has no more set bits than such pixels.
C23_BitPosition ==
  Running =>
    \A pl \in PlaneNames :
      /\ \A x \in 0..(CANVAS_WIDTH - 1), y \in 0..(CANVAS_HEIGHT - 1) :
           BitIsSet(pl, (CANVAS_HEIGHT - 1 - y) * CeilBytes(CANVAS_WIDTH) + (x \div 8),
                    7 - (x % 8))
             <=> chosen[y * CANVAS_WIDTH + x] = IndexOfPlane(pl)
      /\ Cardinality({km \in (DOMAIN planes[pl]) \X (0..7) :
                        BitIsSet(pl, km[1], km[2])})
           = Cardinality({i \in DOMAIN chosen : chosen[i] = IndexOfPlane(pl)})
\* a finished pass with two pixels of one colour in the same byte of a row
\* other than the middle ones, and a pixel of another colour
C23_Witness ==
  /\ dithPc = "done"
  /\ \E pl \in PlaneNames :
       /\ planes[pl][0] \notin {0, 1, 2, 4, 8, 16, 32, 64, 128}
       /\ chosen[(CANVAS_HEIGHT - 1) * CANVAS_WIDTH] = IndexOfPlane(pl)
  /\ Cardinality({chosen[i] : i \in DOMAIN chosen} \ {1}) >= 2


\* the entries of the six error rows
ErrorEntries ==
  {errCurr[c][i] : c \in Channels, i \in 0..(CANVAS_WIDTH - 1)}
  \cup {errNext[c][i] : c \in Channels, i \in 0..(CANVAS_WIDTH - 1)}

\* C29: throughout ditherImage every entry of the six int16 error rows stays
\* within [-255, 255].
C29_ErrorRowsBounded ==
  Running => \A e \in ErrorEntries : -255 <= e /\ e <= 255
\* an entry has taken up error from more than one neighbour and is far from 0
C29_Witness ==
  /\ dithPc = "loop"
  /\ dithY > 0
  /\ \E e \in ErrorEntries : e >= 100
  /\ \E e \in ErrorEntries : e <= -60


(* ------------------------------------------------------------------ *)
(* scaleToFit's geometry at the panel's real size                      *)
(* ------------------------------------------------------------------ *)
\* const uint32_t dstW = 1200; const uint32_t dstH = 1600;
DstW == 1200
DstH == 1600

\* the source sizes the geometry is computed for: a few widths, every height
GeometryWidths == {1, 2, 3, 7, 49, 97, 450, 600, 1199, DstW}
GeometrySamples ==
  {[size |-> 0, w |-> w, h |-> h] :
     w \in GeometryWidths, h \in 1..DstH} \ {[size |-> 0, w |-> DstW, h |-> DstH]}

GeometryInit ==
  /\ DispInit /\ SdParked /\ BootParked /\ PalParked /\ DithParked /\ RendParked
  /\ data \in GeometrySamples
  /\ decPc = "geom"
  /\ decoder = "none"
  /\ result = "pending"
  /\ scaleRun = NoScale
  /\ heap = {}

\* scaleToFit from scaleX to offsetY
ScaleGeometryStep ==
  /\ decPc = "geom"
  /\ LET g == ScaleGeometryAt(DstW, DstH, data.w, data.h)
     IN scaleRun' = [called |-> TRUE, srcW |-> data.w, srcH |-> data.h,
                     copied |-> TRUE, scale |-> g.scale,
                     scaledW |-> g.scaledW, scaledH |-> g.scaledH,
                     offsetX |-> g.offsetX, offsetY |-> g.offsetY]
  /\ decPc' = "geomDone"
  /\ UNCHANGED <<data, decoder, result, heap>>
  /\ UNCHANGED <<bootVars, sdVars, dispVars, palVars, dithVars, rendVars>>

GeometryNext == ScaleGeometryStep
SpecGeometry == GeometryInit /\ [][GeometryNext]_vars

\* floor(src * min(DstW/srcW, DstH/srcH)) along one axis, in exact arithmetic
FitWidth(srcW, srcH) ==
  IF DstW * srcH <= DstH * srcW THEN DstW ELSE (srcW * DstH) \div srcH
FitHeight(srcW, srcH) ==
  IF DstW * srcH <= DstH * srcW THEN (srcH * DstW) \div srcW ELSE DstH

\* C24: for every source smaller than the panel in at least one axis,
\* scaleToFit's scaled dimensions are floor(srcW*scale) x floor(srcH*scale)
\* with scale = min(1200/srcW, 1600/srcH), clamped to 1200 x 1600, so that
\* scaledW = 1200 or scaledH = 1600, and the offsets are (1200-scaledW)/2 and
\* (1600-scaledH)/2.
C24_FitGeometry ==
  decPc = "geomDone" =>
    /\ scaleRun.scaledW = Min(FitWidth(data.w, data.h), DstW)
    /\ scaleRun.scaledH = Min(FitHeight(data.w, data.h), DstH)
    /\ scaleRun.scaledW = DstW \/ scaleRun.scaledH = DstH
    /\ scaleRun.offsetX = (DstW - scaleRun.scaledW) \div 2
    /\ scaleRun.offsetY = (DstH - scaleRun.scaledH) \div 2


(* ------------------------------------------------------------------ *)
(* The decoder callbacks on their own                                  *)
(* ------------------------------------------------------------------ *)
\* the indices idx = curY * 1200 + curX that jpgOutput stores to
jpgOutputWrites(x, y, w, h) ==
  IF y >= CANVAS_HEIGHT \/ x >= CANVAS_WIDTH THEN {}
  ELSE {((y + ij[2]) * CANVAS_WIDTH) + (x + ij[1]) :
          ij \in {p \in (0..(w - 1)) \X (0..(h - 1)) :
                    x + p[1] < CANVAS_WIDTH /\ y + p[2] < CANVAS_HEIGHT}}
\* jpgOutput returns true on both of its paths
jpgOutputReturn(x, y, w, h) ==
  IF y >= CANVAS_HEIGHT \/ x >= CANVAS_WIDTH THEN TRUE ELSE TRUE

\* tiles inside the canvas, across its right and bottom edges, and past them
TileSamples ==
  {[size |-> 0, x |-> x, y |-> y, w |-> w, h |-> h] :
     x \in {0, 4, CANVAS_WIDTH - 1, CANVAS_WIDTH, CANVAS_WIDTH + McuSize},
     y \in {0, McuSize, CANVAS_HEIGHT - 1, CANVAS_HEIGHT, CANVAS_HEIGHT + McuSize},
     w \in {1, McuSize, 2 * McuSize},
     h \in {1, McuSize, 2 * McuSize}}

TileInit ==
  /\ DispInit /\ SdParked /\ BootParked /\ PalParked /\ RendParked
  /\ data \in TileSamples
  /\ rgb565Buffer = WhiteCanvas
  /\ dithPc = "idle" /\ dithX = 0 /\ dithY = 0
  /\ errCurr = NullBuffer /\ errNext = NullBuffer
  /\ planes = NullBuffer /\ chosen = NullBuffer
  /\ decPc = "tile"
  /\ decoder = "jpg"
  /\ result = "pending"
  /\ scaleRun = NoScale
  /\ heap = {"canvas"}

\* the JPEG decoder calls jpgOutput for one tile
JpgOutputCall ==
  /\ decPc = "tile"
  /\ rgb565Buffer' =
       jpgOutput(rgb565Buffer, data.x, data.y, data.w, data.h,
                 TileBitmap(data.x, data.y, data.w, data.h))
  /\ result' = IF jpgOutputReturn(data.x, data.y, data.w, data.h)
               THEN "continue" ELSE "abort"
  /\ decPc' = "tileDone"
  /\ UNCHANGED <<data, decoder, scaleRun, heap>>
  /\ UNCHANGED <<dithPc, dithX, dithY, errCurr, errNext, planes, chosen>>
  /\ UNCHANGED <<bootVars, sdVars, dispVars, palVars, rendVars>>

TileNext == JpgOutputCall
SpecTile == TileInit /\ [][TileNext]_vars

\* C25: for a tile (x, y, w, h) with x >= 0 and y >= 0, after jpgOutput the
\* canvas holds tile pixel (i, j) at (x+i, y+j) wherever x+i and y+j are
\* inside the canvas and is unchanged everywhere else; every index stored to
\* is inside the canvas; the callback returns 'continue'.
C25_TileClipped ==
  decPc = "tileDone" =>
    /\ \A cx \in 0..(CANVAS_WIDTH - 1), cy \in 0..(CANVAS_HEIGHT - 1) :
         rgb565Buffer[(cy * CANVAS_WIDTH) + cx] =
           IF /\ cx >= data.x /\ cx < data.x + data.w
              /\ cy >= data.y /\ cy < data.y + data.h
           THEN Src565(cx, cy)
           ELSE RGB565_WHITE
    /\ DOMAIN rgb565Buffer = 0..((CANVAS_WIDTH * CANVAS_HEIGHT) - 1)
    /\ jpgOutputWrites(data.x, data.y, data.w, data.h)
         \subseteq 0..((CANVAS_WIDTH * CANVAS_HEIGHT) - 1)
    /\ result = "continue"
\* a tile across the right and bottom edges of the canvas has been stored,
\* part of it dropped
C25_Witness ==
  /\ decPc = "tileDone"
  /\ data.x > 0 /\ data.x < CANVAS_WIDTH /\ data.x + data.w > CANVAS_WIDTH
  /\ data.y > 0 /\ data.y < CANVAS_HEIGHT /\ data.y + data.h > CANVAS_HEIGHT
  /\ rgb565Buffer[(CANVAS_WIDTH * CANVAS_HEIGHT) - 1]
       = Src565(CANVAS_WIDTH - 1, CANVAS_HEIGHT - 1)


\* uint16_t tempLine[2400]: twice the canvas width
TempLineLen == 2 * CANVAS_WIDTH
\* the elements of tempLine that getLineAsRGB565 stores for a scanline
getLineWrites(iWidth) == 0..(iWidth - 1)
\* the indices of the canvas that the memcpy of pngDrawCallback stores to
pngDrawWrites(y, iWidth) ==
  IF y >= CANVAS_HEIGHT THEN {}
  ELSE {(y * CANVAS_WIDTH) + k :
          k \in 0..((IF iWidth > CANVAS_WIDTH THEN CANVAS_WIDTH ELSE iWidth) - 1)}

\* scanlines of every row up to past the canvas, narrower and wider than the
\* canvas and than tempLine
LineSamples ==
  {[size |-> 0, y |-> y, w |-> w] :
     y \in 0..(CANVAS_HEIGHT + 3),
     w \in {1, CANVAS_WIDTH \div 2, CANVAS_WIDTH - 1, CANVAS_WIDTH,
            CANVAS_WIDTH + 1, TempLineLen - 1, TempLineLen, TempLineLen + 1}}

LineInit ==
  /\ DispInit /\ SdParked /\ BootParked /\ PalParked /\ RendParked
  /\ data \in LineSamples
  /\ rgb565Buffer = WhiteCanvas
  /\ dithPc = "idle" /\ dithX = 0 /\ dithY = 0
  /\ errCurr = NullBuffer /\ errNext = NullBuffer
  /\ planes = NullBuffer /\ chosen = NullBuffer
  /\ decPc = "line"
  /\ decoder = "png"
  /\ result = "pending"
  /\ scaleRun = NoScale
  /\ heap = {"canvas", "png"}

\* the PNG decoder calls pngDrawCallback for one scanline.  A scanline below
\* the canvas returns at once; otherwise getLineAsRGB565 fills tempLine, and
\* when it stores past the end of tempLine the stack is overwritten: the call
\* may crash or go on.
PngDrawCall ==
  /\ decPc = "line"
  /\ \E crash \in BOOLEAN :
       /\ crash => (data.y < CANVAS_HEIGHT
                      /\ ~(getLineWrites(data.w) \subseteq 0..(TempLineLen - 1)))
       /\ IF crash
          THEN /\ decPc' = "crashed"
               /\ UNCHANGED <<rgb565Buffer, result>>
          ELSE /\ rgb565Buffer' =
                    pngDrawCallback(rgb565Buffer, data.y, data.w,
                                    [x \in 0..(data.w - 1) |-> Src565(x, data.y)])
               /\ result' = "continue"
               /\ decPc' = "lineDone"
  /\ UNCHANGED <<data, decoder, scaleRun, heap>>
  /\ UNCHANGED <<dithPc, dithX, dithY, errCurr, errNext, planes, chosen>>
  /\ UNCHANGED <<bootVars, sdVars, dispVars, palVars, rendVars>>

LineNext == PngDrawCall
SpecLine == LineInit /\ [][LineNext]_vars

\* C26: for a scanline of any width and any y, pngDrawCallback copies exactly
\* min(rowWidth, canvas width) pixels of the scanline into canvas row y when
\* y is inside the canvas and drops it otherwise; it stores neither outside
\* the canvas nor past the end of its temporary line buffer.
C26_ScanlineCopied ==
  /\ decPc # "crashed"
  /\ decPc = "lineDone" =>
       (data.y < CANVAS_HEIGHT =>
          getLineWrites(data.w) \subseteq 0..(TempLineLen - 1))
  /\ decPc = "lineDone" =>
       /\ pngDrawWrites(data.y, data.w)
            \subseteq 0..((CANVAS_WIDTH * CANVAS_HEIGHT) - 1)
       /\ \A cx \in 0..(CANVAS_WIDTH - 1), cy \in 0..(CANVAS_HEIGHT - 1) :
            rgb565Buffer[(cy * CANVAS_WIDTH) + cx] =
              IF cy = data.y /\ cx < data.w THEN Src565(cx, cy)
              ELSE RGB565_WHITE


(* ------------------------------------------------------------------ *)
(* The input bytes decodeBMP reads                                     *)
(* ------------------------------------------------------------------ *)
\* the indices of data[] that decodeBMP reads: the 54 header bytes; in the
\* 8-bit branch imageHeight rows of rowSize bytes from dataIndex on; in the
\* 24-bit branch three bytes for each pixel with x < 1200 and y < 1600
BmpReads(d) ==
  LET hdr == BmpHeader(d)
      start8 == IF hdr.dataOffset > 54 + 1024 THEN hdr.dataOffset ELSE 54 + 1024
      rowSize8 == RowSize(hdr.imageWidth, hdr.bitsPerPixel)
      rowSize24 == RowSize(hdr.imageWidth, 24)
  IN (0..53)
     \cup (IF hdr.bitsPerPixel = 8 /\ hdr.compression = 0
           THEN start8..(start8 + (hdr.imageHeight * rowSize8) - 1)
           ELSE {})
     \cup (IF hdr.bitsPerPixel = 24
           THEN UNION {LET at == hdr.dataOffset
                                   + ((hdr.imageHeight - 1 - xy[2]) * rowSize24)
                                   + (3 * xy[1])
                       IN {at, at + 1, at + 2} :
                         xy \in {p \in (0..(hdr.imageWidth - 1))
                                         \X (0..(hdr.imageHeight - 1)) :
                                   p[1] < CANVAS_WIDTH /\ p[2] < CANVAS_HEIGHT}}
           ELSE {})

\* BMP buffers whose length is that of the image the header describes, one
\* byte less, or the header alone
BmpReadSamples ==
  {[BmpFile(sw, sh, bits, cmp) EXCEPT !.size = IF cut = 0 THEN 54 ELSE @ - (cut - 1)] :
     sw \in SrcWidths, sh \in SrcHeights, bits \in {8, 24, 32}, cmp \in {0, 1},
     cut \in 0..2}

BmpReadInit ==
  /\ DispInit /\ SdParked /\ BootParked /\ PalParked /\ DithParked /\ RendParked
  /\ data \in BmpReadSamples
  /\ decPc = "bmpRead"
  /\ decoder = "bmp"
  /\ result = "pending"
  /\ scaleRun = NoScale
  /\ heap = {}

\* decodeBMP reads its input.  A read past the end of the buffer yields
\* whatever follows it or faults.
DecodeBmpRead ==
  /\ decPc = "bmpRead"
  /\ \E fault \in BOOLEAN :
       /\ fault => ~(BmpReads(data) \subseteq 0..(data.size - 1))
       /\ decPc' = IF fault THEN "crashed" ELSE "bmpReadDone"
  /\ UNCHANGED <<data, decoder, result, scaleRun, heap>>
  /\ UNCHANGED <<bootVars, sdVars, dispVars, palVars, dithVars, rendVars>>

BmpReadNext == DecodeBmpRead
SpecBmpRead == BmpReadInit /\ [][BmpReadNext]_vars

\* C27: for every input of at least 54 bytes and every value of the header
\* fields, decodeBMP reads no byte of the input at an index >= dataSize.
C27_BmpReadsInBounds ==
  /\ decPc # "crashed"
  /\ (decPc = "bmpReadDone" /\ data.size >= 54) =>
       BmpReads(data) \subseteq 0..(data.size - 1)


(* ------------------------------------------------------------------ *)
(* drawPixel alone                                                     *)
(* ------------------------------------------------------------------ *)
\* logical coordinates on, next to and far from the edges of the panel in
\* either orientation, with colours whose nibbles differ from the fill
DrawSamples ==
  {[size |-> 0, x |-> x, y |-> y, color |-> c, fill |-> f] :
     x \in {-1, 0, 1, 2, EPD_NATIVE_WIDTH - 1, EPD_NATIVE_WIDTH,
            EPD_NATIVE_HEIGHT - 1, EPD_NATIVE_HEIGHT},
     y \in {-1, 0, 1, EPD_NATIVE_WIDTH - 1, EPD_NATIVE_WIDTH,
            EPD_NATIVE_HEIGHT - 1, EPD_NATIVE_HEIGHT},
     c \in {BLACK, RED, (256 * 3) + GREEN},
     f \in {-1, WHITE, 165}}

\* the framebuffer before the call: absent, or filled with one byte
BufferBefore(d) == IF d.fill < 0 THEN NullBuffer ELSE FilledBuffer(d.fill)

DrawInit ==
  /\ SdParked /\ BootParked /\ PalParked /\ DithParked /\ RendParked
  /\ data \in DrawSamples
  /\ decPc = "idle" /\ decoder = "none" /\ result = "pending"
  /\ scaleRun = NoScale /\ heap = {}
  /\ frameBuffer = BufferBefore(data)
  /\ initialized = ~IsNull(frameBuffer)
  /\ rotation \in Rotations
  /\ cs = [n \in 0..1 |-> GPIO_HIGH]
  /\ dispPc = "idle" /\ row = 0 /\ busLog = <<>> /\ refreshes = 0
  /\ draws = 0

\* one call drawPixel(x, y, color)
DrawPixelCall ==
  /\ dispPc = "idle"
  /\ draws = 0
  /\ frameBuffer' = drawPixel(frameBuffer, rotation, data.x, data.y, data.color)
  /\ draws' = 1
  /\ UNCHANGED <<initialized, rotation, cs, dispPc, row, busLog, refreshes>>
  /\ UNCHANGED notDisp

DrawNext == DrawPixelCall
SpecDraw == DrawInit /\ [][DrawNext]_vars

\* the physical pixel the call addresses
Addressed == Rotated(rotation, data.x, data.y)
AddressedInside ==
  /\ Addressed[1] >= 0 /\ Addressed[1] < EPD_NATIVE_WIDTH
  /\ Addressed[2] >= 0 /\ Addressed[2] < EPD_NATIVE_HEIGHT
AddressedByte == ((Addressed[2] * EPD_NATIVE_WIDTH) + Addressed[1]) \div 2
HighNibble(byte) == byte \div 16
LowNibble(byte) == byte % 16

\* C28: drawPixel, for any coordinates, colour and rotation 0..3, either
\* writes nothing (framebuffer absent, or rotated coordinates outside the
\* panel) or changes only the nibble of byte (y * width + x) / 2 that belongs
\* to the addressed pixel (the high one for even x), to the low four bits of
\* the colour; that byte index is below FRAME_BUFFER_SIZE, and the other
\* nibble and all other bytes are unchanged.
C28_OneNibble ==
  draws = 1 =>
    IF IsNull(BufferBefore(data)) \/ ~AddressedInside
    THEN frameBuffer = BufferBefore(data)
    ELSE /\ AddressedByte >= 0 /\ AddressedByte < FRAME_BUFFER_SIZE
         /\ DOMAIN frameBuffer = 0..(FRAME_BUFFER_SIZE - 1)
         /\ \A i \in DOMAIN frameBuffer :
              i # AddressedByte => frameBuffer[i] = data.fill
         /\ IF Addressed[1] % 2 = 0
            THEN /\ HighNibble(frameBuffer[AddressedByte]) = data.color % 16
                 /\ LowNibble(frameBuffer[AddressedByte]) = LowNibble(data.fill)
            ELSE /\ LowNibble(frameBuffer[AddressedByte]) = data.color % 16
                 /\ HighNibble(frameBuffer[AddressedByte]) = HighNibble(data.fill)

\* a call with rotation 3 that changed the low nibble of a byte in the last
\* row and left its high nibble alone
C28_Witness ==
  /\ draws = 1
  /\ rotation = 3
  /\ AddressedInside
  /\ Addressed[1] % 2 = 1
  /\ Addressed[2] = EPD_NATIVE_HEIGHT - 1
  /\ ~IsNull(frameBuffer)
  /\ frameBuffer[AddressedByte] # data.fill
  /\ HighNibble(frameBuffer[AddressedByte]) = HighNibble(data.fill)


(* ------------------------------------------------------------------ *)
(* Working buffers of the decoders                                     *)
(* ------------------------------------------------------------------ *)
\* C30: on every return path of decodeJPG, decodePNG and decodeBMP every
\* buffer the call allocated, other than the returned bitplanes, has been
\* freed: none is still allocated when the decoder has returned.
C30_BuffersFreed == decPc = "returned" => heap = {}


(* ------------------------------------------------------------------ *)
(* Boot: setup() of main.cpp                                           *)
(* ------------------------------------------------------------------ *)
\* SERVER_TIMEOUT_MS in passes of the serving loop (60000 passes of delay(10)
\* on the device)
WindowTicks == 3
\* how many uploads the server may announce during one boot
MaxUploads == 2

BootEvent(ev, arg) == [ev |-> ev, arg |-> arg]
Rendered(screen) == BootEvent("render", screen)
Renders == {i \in DOMAIN bootLog : bootLog[i].ev = "render"}

\* displayCurrentScreen: the screen it constructs and renders
displayCurrentScreen(hasValidWiFiCredentials) ==
  IF ~hasValidWiFiCredentials THEN "ConfigurationScreen" ELSE "ImageScreen"

\* what server.hasNewImage() may answer
hasNewImage == IF isServerRunning THEN BOOLEAN ELSE {FALSE}

\* the requests the web server may receive during one pass of the loop
Requests == {"none", "save", "saveIncomplete", "upload", "clear"}

\* the handlers of ConfigurationServer: /save calls the callback, which
\* copies the new settings into appConfig, and then stop(); /upload and
\* /clear restart the chip
ServerRequest(req) ==
  CASE req = "save" ->
         /\ isServerRunning
         /\ credentials' \in BOOLEAN
         /\ isServerRunning' = FALSE
         /\ bootPc' = bootPc
    [] req = "saveIncomplete" ->
         /\ isServerRunning
         /\ isServerRunning' = FALSE
         /\ UNCHANGED <<credentials, bootPc>>
    [] req \in {"upload", "clear"} ->
         /\ isServerRunning
         /\ bootPc' = "restarted"
         /\ UNCHANGED <<credentials, isServerRunning>>
    [] OTHER -> UNCHANGED <<credentials, isServerRunning, bootPc>>

BootInit ==
  /\ DispInit /\ SdParked /\ PalParked /\ DithParked /\ RendParked /\ DecParked
  /\ bootPc = "s232"
  /\ credentials = FALSE
  /\ connected = FALSE
  /\ isServerRunning = FALSE
  /\ elapsed = 0
  /\ bootLog = <<>>

notBoot == <<dispVars, palVars, dithVars, rendVars, decVars, sdVars>>

\* setup: initializeDefaultConfig(); the stored configuration has valid WiFi
\* credentials or not
Setup232 ==
  /\ bootPc = "s232"
  /\ credentials' \in BOOLEAN
  /\ bootPc' = "s235"
  /\ UNCHANGED <<connected, isServerRunning, elapsed, bootLog>>
  /\ UNCHANGED notBoot

\* setup: wifi.connect() and up to 20 waits of one second
Setup238 ==
  /\ bootPc = "s235"
  /\ credentials
  /\ connected' \in BOOLEAN
  /\ bootPc' = "s256"
  /\ UNCHANGED <<credentials, isServerRunning, elapsed, bootLog>>
  /\ UNCHANGED notBoot

\* setup, with credentials: displayCurrentScreen(wifi.isConnected()) before the
\* server is started
Setup256 ==
  /\ bootPc = "s256"
  /\ bootLog' = Append(bootLog, Rendered(displayCurrentScreen(credentials)))
  /\ bootPc' = "s265"
  /\ UNCHANGED <<credentials, connected, isServerRunning, elapsed>>
  /\ UNCHANGED notBoot

\* setup, with credentials: server.run(callback, useAP) and serverStart =
\* millis(); run gives up if LittleFS, the page template or the access point
\* cannot be set up
Setup265 ==
  /\ bootPc = "s265"
  /\ \E started \in BOOLEAN :
       /\ isServerRunning' = started
       /\ bootLog' = Append(bootLog, BootEvent("server.run", ~connected))
  /\ elapsed' = 0
  /\ bootPc' = "s294"
  /\ UNCHANGED <<credentials, connected>>
  /\ UNCHANGED notBoot

\* setup, with credentials: one evaluation of while (millis() - serverStart <
\* SERVER_TIMEOUT_MS) and, inside the window, one pass of its body
Setup294 ==
  /\ bootPc = "s294"
  /\ IF elapsed < WindowTicks
     THEN \E req \in Requests, new \in hasNewImage :
            /\ ServerRequest(req)
            /\ new => Cardinality(Renders) <= MaxUploads
            /\ bootLog' = IF new /\ bootPc' = bootPc
                          THEN Append(bootLog,
                                      Rendered(displayCurrentScreen(credentials')))
                          ELSE bootLog
            /\ elapsed' = elapsed + 1
     ELSE /\ bootPc' = "s361"
          /\ UNCHANGED <<credentials, isServerRunning, elapsed, bootLog>>
  /\ UNCHANGED connected
  /\ UNCHANGED notBoot

\* setup, without credentials: displayCurrentScreen(false)
Setup320 ==
  /\ bootPc = "s235"
  /\ ~credentials
  /\ bootLog' = Append(bootLog, Rendered(displayCurrentScreen(credentials)))
  /\ bootPc' = "s322"
  /\ UNCHANGED <<credentials, connected, isServerRunning, elapsed>>
  /\ UNCHANGED notBoot

\* setup, without credentials: server.run(callback, true) and serverStart =
\* millis()
Setup322 ==
  /\ bootPc = "s322"
  /\ \E started \in BOOLEAN :
       /\ isServerRunning' = started
       /\ bootLog' = Append(bootLog, BootEvent("server.run", TRUE))
  /\ elapsed' = 0
  /\ bootPc' = "s340"
  /\ UNCHANGED <<credentials, connected>>
  /\ UNCHANGED notBoot

\* setup, without credentials: one evaluation of the while and, inside the
\* window, one pass of its body
Setup340 ==
  /\ bootPc = "s340"
  /\ IF elapsed < WindowTicks
     THEN \E req \in Requests, new \in hasNewImage :
            /\ ServerRequest(req)
            /\ new => Cardinality(Renders) <= MaxUploads
            /\ bootLog' = IF new /\ bootPc' = bootPc
                          THEN Append(bootLog,
                                      Rendered(displayCurrentScreen(credentials')))
                          ELSE bootLog
            /\ elapsed' = elapsed + 1
     ELSE /\ bootPc' = "s361"
          /\ UNCHANGED <<credentials, isServerRunning, elapsed, bootLog>>
  /\ UNCHANGED connected
  /\ UNCHANGED notBoot

\* setup: esp_deep_sleep_start()
Setup361 ==
  /\ bootPc = "s361"
  /\ bootLog' = Append(bootLog, BootEvent("esp_deep_sleep_start", TRUE))
  /\ bootPc' = "asleep"
  /\ UNCHANGED <<credentials, connected, isServerRunning, elapsed>>
  /\ UNCHANGED notBoot

BootNext ==
  \/ Setup232 \/ Setup238 \/ Setup256 \/ Setup265 \/ Setup294
  \/ Setup320 \/ Setup322 \/ Setup340 \/ Setup361
SpecBoot == BootInit /\ [][BootNext]_vars

(* ------------------------------------------------------------------ *)
(* Boot claim                                                          *)
(* ------------------------------------------------------------------ *)
ServerStarts == {i \in DOMAIN bootLog : bootLog[i].ev = "server.run"}
InWindow == bootPc \in {"s294", "s340"} /\ elapsed < WindowTicks

\* C21: on every boot, with or without stored WiFi credentials, the stored
\* image (ImageScreen) is rendered before the web server or access point is
\* started, the server is kept running during the window, and deep sleep is
\* entered only after the window has elapsed.
C21_ImageThenServerThenSleep ==
  /\ \A i \in ServerStarts :
       \E j \in 1..(i - 1) : bootLog[j] = Rendered("ImageScreen")
  /\ InWindow => isServerRunning
  /\ bootPc = "asleep" => elapsed >= WindowTicks

====
